---------------------------- MODULE Spec2Model ----------------------------
(***************************************************************************)
(* A model of the BLE advertisement router of dbus-ble-advertisements.py:  *)
(* the btmon line parser, the registration directory filled by D-Bus       *)
(* introspection, the per-device dedup cache and the signal dispatch.      *)
(* Strings are TLC strings and are taken apart character by character the  *)
(* way the regular expressions of the source take them apart.              *)
(***************************************************************************)
EXTENDS Integers, Sequences, FiniteSets, TLC

(***************************************************************************)
(* Optional values: Python's None is the empty tuple, a value v is <<v>>.  *)
(***************************************************************************)
None == <<>>
Some(v) == <<v>>
IsSet(o) == o # None
Val(o) == o[1]

SetMin(S) == CHOOSE x \in S : \A y \in S : x <= y
SetMax(S) == CHOOSE x \in S : \A y \in S : y <= x

(***************************************************************************)
(* Characters and substrings.                                              *)
(***************************************************************************)
DigitChars == {"0", "1", "2", "3", "4", "5", "6", "7", "8", "9"}
UpperHexChars == DigitChars \cup {"A", "B", "C", "D", "E", "F"}
LowerHexChars == DigitChars \cup {"a", "b", "c", "d", "e", "f"}
WhiteChars == {" ", "\t", "\n", "\r"}

\* s[i:j] of Python with 1-based inclusive bounds; "" when out of range
Sub(s, i, j) == IF i >= 1 /\ j <= Len(s) /\ i <= j THEN SubSeq(s, i, j) ELSE ""
CharAt(s, i) == Sub(s, i, i)
\* the text t stands in s at position i
At(s, i, t) == Sub(s, i, i + Len(t) - 1) = t
\* the positions where t stands in s
FindAll(s, t) == {i \in 1..Len(s) : At(s, i, t)}
\* Python's `t in s`
Contains(s, t) == FindAll(s, t) # {}
\* s from position i to its end
From(s, i) == Sub(s, i, Len(s))

\* the end of the longest run of characters of C that starts at i (i-1: no run)
RECURSIVE RunEnd(_, _, _)
RunEnd(s, i, C) == IF i <= Len(s) /\ CharAt(s, i) \in C THEN RunEnd(s, i + 1, C) ELSE i - 1

AllIn(s, C) == \A i \in 1..Len(s) : CharAt(s, i) \in C
IsDigits(s) == Len(s) > 0 /\ AllIn(s, DigitChars)

DigitVal(c) ==
    CASE c = "0" -> 0 [] c = "1" -> 1 [] c = "2" -> 2 [] c = "3" -> 3 [] c = "4" -> 4
      [] c = "5" -> 5 [] c = "6" -> 6 [] c = "7" -> 7 [] c = "8" -> 8 [] c = "9" -> 9
      [] c = "a" -> 10 [] c = "b" -> 11 [] c = "c" -> 12 [] c = "d" -> 13
      [] c = "e" -> 14 [] c = "f" -> 15

\* int(s) for a string of decimal digits, with an optional leading minus
RECURSIVE DecValue(_)
DecValue(s) ==
    IF Len(s) = 0 THEN 0
    ELSE 10 * DecValue(Sub(s, 1, Len(s) - 1)) + DigitVal(CharAt(s, Len(s)))
ToInt(s) == IF At(s, 1, "-") THEN 0 - DecValue(From(s, 2)) ELSE DecValue(s)

\* str.strip()
RECURSIVE LStrip(_)
LStrip(s) == IF Len(s) > 0 /\ CharAt(s, 1) \in WhiteChars THEN LStrip(From(s, 2)) ELSE s
RECURSIVE RStrip(_)
RStrip(s) ==
    IF Len(s) > 0 /\ CharAt(s, Len(s)) \in WhiteChars THEN RStrip(Sub(s, 1, Len(s) - 1)) ELSE s
Strip(s) == RStrip(LStrip(s))

UpperChar(c) ==
    CASE c = "a" -> "A" [] c = "b" -> "B" [] c = "c" -> "C" [] c = "d" -> "D"
      [] c = "e" -> "E" [] c = "f" -> "F" [] c = "x" -> "X" [] c = "y" -> "Y"
      [] c = "z" -> "Z" [] OTHER -> c
\* str.upper()
RECURSIVE Upper(_)
Upper(s) == IF Len(s) = 0 THEN "" ELSE UpperChar(CharAt(s, 1)) \o Upper(From(s, 2))

\* str.replace(c, '') for a single character c
RECURSIVE RemoveChar(_, _)
RemoveChar(s, c) ==
    IF Len(s) = 0 THEN ""
    ELSE (IF CharAt(s, 1) = c THEN "" ELSE CharAt(s, 1)) \o RemoveChar(From(s, 2), c)

(***************************************************************************)
(* The regular expressions of parse_btmon_line, each as re.search computes *)
(* it: the leftmost match, greedy groups.  Each gives the captured group   *)
(* (converted as the code converts it) or None.                            *)
(***************************************************************************)
\* re.search(r'\[hci(\d+)\]', line), as f"hci{group(1)}"
HciMatch(line) ==
    LET M == {i \in 1..Len(line) :
                /\ At(line, i, "[hci")
                /\ RunEnd(line, i + 4, DigitChars) >= i + 4
                /\ CharAt(line, RunEnd(line, i + 4, DigitChars) + 1) = "]"}
    IN IF M = {} THEN None
       ELSE Some("hci" \o Sub(line, SetMin(M) + 4, RunEnd(line, SetMin(M) + 4, DigitChars)))

\* re.search(r'(?:LE )?Address: ([0-9A-F:]{17})', line)
MacMatch(line) ==
    LET M == {i \in FindAll(line, "Address: ") :
                /\ i + 9 + 16 <= Len(line)
                /\ AllIn(Sub(line, i + 9, i + 9 + 16), UpperHexChars \cup {":"})}
    IN IF M = {} THEN None ELSE Some(Sub(line, SetMin(M) + 9, SetMin(M) + 9 + 16))

\* re.search(r'Name(?: \(complete\))?: (.+)', line), as group(1).strip()
NameMatch(line) ==
    LET Plain == {i \in FindAll(line, "Name: ") : i + 6 <= Len(line)}
        Compl == {i \in FindAll(line, "Name (complete): ") : i + 17 <= Len(line)}
        M == Plain \cup Compl
        m == SetMin(M)
    IN IF M = {} THEN None
       ELSE Some(Strip(From(line, IF m \in Plain THEN m + 6 ELSE m + 17)))

\* re.search(r'RSSI: (-?\d+)', line), as int(group(1))
RssiMatch(line) ==
    LET NumStart(i) == IF CharAt(line, i + 6) = "-" THEN i + 7 ELSE i + 6
        M == {i \in FindAll(line, "RSSI: ") :
                RunEnd(line, NumStart(i), DigitChars) >= NumStart(i)}
        m == SetMin(M)
    IN IF M = {} THEN None
       ELSE Some(ToInt(Sub(line, m + 6, RunEnd(line, NumStart(m), DigitChars))))

\* re.search(r'Company: .* \((\d+)\)', line), as int(group(1))
CompanyMatch(line) ==
    LET Tails(i) == {j \in i + 9 .. Len(line) :
                       /\ At(line, j, " (")
                       /\ RunEnd(line, j + 2, DigitChars) >= j + 2
                       /\ CharAt(line, RunEnd(line, j + 2, DigitChars) + 1) = ")"}
        M == {i \in FindAll(line, "Company: ") : Tails(i) # {}}
        j == SetMax(Tails(SetMin(M)))
    IN IF M = {} THEN None
       ELSE Some(ToInt(Sub(line, j + 2, RunEnd(line, j + 2, DigitChars))))

\* re.search(r'Data: ([0-9a-f]+)', line), as group(1)
DataMatch(line) ==
    LET M == {i \in FindAll(line, "Data: ") :
                RunEnd(line, i + 6, LowerHexChars) >= i + 6}
        m == SetMin(M)
    IN IF M = {} THEN None
       ELSE Some(Sub(line, m + 6, RunEnd(line, m + 6, LowerHexChars)))

\* faulty variant: one byte per hex digit
FromHexPerDigit(h) ==
    IF Len(h) % 2 = 1 THEN None ELSE Some([i \in 1..Len(h) |-> DigitVal(CharAt(h, i))])

\* bytes.fromhex(hex_data): None stands for ValueError (an odd number of digits)
RECURSIVE HexBytes(_)
HexBytes(h) ==
    IF Len(h) = 0 THEN <<>>
    ELSE <<16 * DigitVal(CharAt(h, 1)) + DigitVal(CharAt(h, 2))>> \o HexBytes(From(h, 3))
\* faulty variant: an odd digit count is padded and decoded
FromHexLenient(h) == IF Len(h) % 2 = 1 THEN Some(HexBytes(h \o "0")) ELSE Some(HexBytes(h))
FromHex(h) == IF Len(h) % 2 = 1 THEN None ELSE Some(HexBytes(h))

\* _extract_product_id: bytes 2-3 of the payload, little-endian (struct "<H")
ExtractProductId(data) ==
    IF Len(data) >= 4 THEN Some(data[3] + 256 * data[4]) ELSE None

\* str.lower() on the hexadecimal letters of a MAC
LowerChar(c) ==
    CASE c = "A" -> "a" [] c = "B" -> "b" [] c = "C" -> "c" [] c = "D" -> "d"
      [] c = "E" -> "e" [] c = "F" -> "f" [] OTHER -> c
RECURSIVE Lower(_)
Lower(s) == IF Len(s) = 0 THEN "" ELSE LowerChar(CharAt(s, 1)) \o Lower(From(s, 2))

\* relay_id = mac.replace(':', '').lower(): the key of the dedup cache and of the switch
RelayId(mac) == Lower(RemoveChar(mac, ":"))

(***************************************************************************)
(* The registration path grammar of _parse_registrations.                  *)
(***************************************************************************)
\* the text after the marker when re.search(marker + r'...$') can match: the marker
\* must be the last one of the path; None when the marker does not occur
AfterLast(path, marker) ==
    IF FindAll(path, marker) = {} THEN None
    ELSE Some(From(path, SetMax(FindAll(path, marker)) + Len(marker)))

\* the fields of s between underscores
RECURSIVE SplitUnderscore(_)
SplitUnderscore(s) ==
    LET U == FindAll(s, "_")
    IN IF U = {} THEN <<s>>
       ELSE <<Sub(s, 1, SetMin(U) - 1)>> \o SplitUnderscore(From(s, SetMin(U) + 1))

\* re.search(r'/<kind>/(\d+)_(\d+)..$', path) with n numeric groups: the n integers, or None
NumericFields(path, marker, n) ==
    LET rest == AfterLast(path, marker)
        parts == SplitUnderscore(Val(rest))
    IN IF rest = None THEN None
       ELSE IF Len(parts) = n /\ \A i \in 1..n : IsDigits(parts[i])
            THEN Some([i \in 1..n |-> ToInt(parts[i])])
            ELSE None

\* the MAC key of an /addr/ path: underscores removed, colons put in when twelve
\* characters remain, upper-cased; None when '/addr/' does not occur exactly once
AddrKey(path) ==
    LET cuts == FindAll(path, "/addr/")
        mac_part == RemoveChar(From(path, SetMin(cuts) + 6), "_")
        joined == Sub(mac_part, 1, 2) \o ":" \o Sub(mac_part, 3, 4) \o ":" \o
                  Sub(mac_part, 5, 6) \o ":" \o Sub(mac_part, 7, 8) \o ":" \o
                  Sub(mac_part, 9, 10) \o ":" \o Sub(mac_part, 11, 12)
    IN IF Cardinality(cuts) # 1 THEN None
       ELSE IF ~Contains(mac_part, ":") /\ Len(mac_part) = 12 THEN Some(Upper(joined))
       ELSE Some(Upper(mac_part))

(***************************************************************************)
(* The state of BLEAdvertisementRouter.                                    *)
(***************************************************************************)
VARIABLES
    current_mac,              \* btmon parsing state: None or a value
    current_name,
    current_mfg_id,
    current_rssi,
    current_interface,
    device_names,             \* MAC -> last name seen for it
    mfg_registrations,        \* mfg_id -> set of registration paths
    mac_registrations,        \* MAC -> set of registration paths
    pid_registrations,        \* <<mfg_id, product_id>> -> set of registration paths
    pid_range_registrations,  \* <<mfg_id, min_pid, max_pid>> -> set of registration paths
    emitters,                 \* the paths that have an AdvertisementEmitter
    discovered_devices,       \* relay_id -> [route, previous, timestamp, last_log_time]
    relay_state,              \* relay_id -> /SwitchableOutput/relay_<id>/State, for the switches that exist
    discovery_state,          \* /SwitchableOutput/relay_discovery/State
    repeat_interval,          \* _repeat_interval, seconds
    log_interval,             \* _log_interval, seconds
    now,                      \* time.time(), whole seconds
    bus_names,                \* the bus: the well-known names that have an owner
    pending_introspect,       \* service name -> Introspect calls awaiting their reply or error
    btmon_pipe,               \* the lines btmon has written that are not read yet
    handed,                   \* what the last step passed to process_advertisement: <<>> or <<call>>
    delivered,                \* the Advertisement signals of the last step: [event, paths: path -> count]
    last_op,                  \* the handler that ran last and its argument
    pending_scan_services,    \* _pending_scan_services: the queue of the initial scan
    scan_timers,              \* the timeouts of _scan_next_service that are scheduled
    heartbeat,                \* root_obj.heartbeat
    btmon_proc,               \* the btmon process: "running" or "ended"
    btmon_watch,              \* the io watch on btmon's output is installed
    mainloop,                 \* the router process: "running" or "exited"
    missing_emitter_logged,   \* _missing_emitter_logged
    warnings                  \* path -> "No emitter for registered path" warnings logged

parser_vars == <<current_mac, current_name, current_mfg_id, current_rssi, current_interface,
                 device_names>>
directory_vars == <<mfg_registrations, mac_registrations, pid_registrations,
                    pid_range_registrations, emitters>>
device_vars == <<discovered_devices, relay_state>>
setting_vars == <<discovery_state, repeat_interval, log_interval>>
bus_vars == <<bus_names, pending_introspect>>
run_vars == <<pending_scan_services, scan_timers, heartbeat, btmon_proc, btmon_watch, mainloop>>
log_vars == <<missing_emitter_logged, warnings>>
vars == <<parser_vars, directory_vars, device_vars, setting_vars, bus_vars, now,
          btmon_pipe, handed, delivered, last_op, run_vars, log_vars>>

DEFAULT_LOG_INTERVAL == 3000
DEFAULT_REPEAT_INTERVAL == 600
CACHE_LIMIT == 1000

\* a dict: the function with no key, and d[k] = v put in
EmptyDict == [k \in {} |-> {}]
Put(d, k, v) == [j \in DOMAIN d \cup {k} |-> IF j = k THEN v ELSE d[j]]
\* d.get(k, default)
Get(d, k, default) == IF k \in DOMAIN d THEN d[k] ELSE default
\* d without the keys whose value (a set) is empty
DropEmpty(d) == [k \in {j \in DOMAIN d : d[j] # {}} |-> d[k]]
\* index[key].add(path), the key made when missing
\* faulty variant: a path declared again is taken out of the index
AddPathToggle(index, key, path) ==
    Put(index, key, IF path \in Get(index, key, {})
                    THEN Get(index, key, {}) \ {path} ELSE Get(index, key, {}) \cup {path})
AddPath(index, key, path) == Put(index, key, Get(index, key, {}) \cup {path})

\* the four filter indexes as one record
Directory ==
    [mfg |-> mfg_registrations, mac |-> mac_registrations,
     pid |-> pid_registrations, range |-> pid_range_registrations]
EmptyDirectory == [mfg |-> EmptyDict, mac |-> EmptyDict, pid |-> EmptyDict, range |-> EmptyDict]

\* every path of an index
IndexPaths(index) == UNION {index[k] : k \in DOMAIN index}
\* active_paths of _update_emitters
ActivePaths(dir) ==
    IndexPaths(dir.mfg) \cup IndexPaths(dir.mac) \cup IndexPaths(dir.pid) \cup IndexPaths(dir.range)

\* the body of _parse_registrations for one visited object path
RegisterPath(dir, path) ==
    IF ~Contains(path, "/ble_advertisements/") THEN dir
    ELSE IF Contains(path, "/mfgr_product_range/") THEN
        LET f == NumericFields(path, "/mfgr_product_range/", 3)
        IN IF f = None THEN dir
           ELSE [dir EXCEPT !.range = AddPath(@, <<Val(f)[1], Val(f)[2], Val(f)[3]>>, path)]
    ELSE IF Contains(path, "/mfgr_product/") THEN
        LET f == NumericFields(path, "/mfgr_product/", 2)
        IN IF f = None THEN dir
           ELSE [dir EXCEPT !.pid = AddPath(@, <<Val(f)[1], Val(f)[2]>>, path)]
    ELSE IF Contains(path, "/mfgr/") THEN
        LET f == NumericFields(path, "/mfgr/", 1)
        IN IF f = None THEN dir ELSE [dir EXCEPT !.mfg = AddPath(@, Val(f)[1], path)]
    ELSE IF Contains(path, "/addr/") THEN
        LET k == AddrKey(path)
        IN IF k = None THEN dir ELSE [dir EXCEPT !.mac = AddPath(@, Val(k), path)]
    ELSE dir

\* the object paths the recursion of _parse_registrations visits in a service that
\* exports the objects `tree`: every object and every node above it
PathNodes(path) ==
    {Sub(path, 1, i - 1) : i \in {j \in FindAll(path, "/") : j > 1}} \cup {path}
VisitedPaths(tree) == UNION {PathNodes(p) : p \in tree}

\* faulty variant: one reply registers a single path of the tree, the rest is left
\* for later
RegisterAllPartial(dir, paths) ==
    LET fresh == {p \in paths : RegisterPath(dir, p) # dir}
    IN IF fresh = {} THEN dir ELSE RegisterPath(dir, CHOOSE p \in fresh : TRUE)

\* _parse_registrations(service_name, '/', xml) over the whole object tree
RECURSIVE RegisterAll(_, _)
RegisterAll(dir, paths) ==
    IF paths = {} THEN dir
    ELSE LET p == CHOOSE q \in paths : TRUE
         IN RegisterAll(RegisterPath(dir, p), paths \ {p})
ParseRegistrations(dir, tree) == RegisterAll(dir, VisitedPaths(tree))

\* 'ble_advertisements' in xml, for the introspection data of the root object:
\* it names the root's child nodes
RootXmlMentions(tree) ==
    \E p \in tree : Contains(Sub(p, 2, SetMin({i \in 2..Len(p) + 1 : CharAt(p, i) \in {"/", ""}}) - 1),
                             "ble_advertisements")

\* faulty variant: the paths of the product and range indexes are not collected
UpdateEmittersWithoutProducts(dir, old_emitters, failing) ==
    LET active_paths == IndexPaths(dir.mfg) \cup IndexPaths(dir.mac)
    IN (old_emitters \cup (active_paths \ failing)) \cap active_paths

\* _update_emitters: an emitter for every active path that has none (its creation
\* raises and is logged for the paths of `failing`), none for a path no longer active
UpdateEmitters(dir, old_emitters, failing) ==
    (old_emitters \cup (ActivePaths(dir) \ failing)) \cap ActivePaths(dir)

\* faulty variant: paths are matched on the last component of the service name
RemoveFromIndexByTag(index, service_name) ==
    DropEmpty([k \in DOMAIN index |->
                  {p \in index[k] : ~Contains(p, "/" \o Val(AfterLast(service_name, ".")))}])

\* faulty variant: the index is emptied, whoever owns its paths
RemoveFromIndexEverything(index, service_name) == EmptyDict

\* the four loops of _remove_service_registrations over one index
RemoveFromIndex(index, service_name) ==
    DropEmpty([k \in DOMAIN index |-> {p \in index[k] : ~Contains(p, service_name)}])
RemoveServiceFromDirectory(dir, service_name) ==
    [mfg |-> RemoveFromIndex(dir.mfg, service_name),
     mac |-> RemoveFromIndex(dir.mac, service_name),
     pid |-> RemoveFromIndex(dir.pid, service_name),
     range |-> RemoveFromIndex(dir.range, service_name)]
\* its last loop, over the emitters
EmittersToRemove(old_emitters, service_name) ==
    {p \in old_emitters : Contains(p, service_name)}

(***************************************************************************)
(* Matching, the dedup cache and the dispatch.                             *)
(***************************************************************************)
\* faulty variant: the upper end of a range is exclusive
RangeContainsBelowMax(min_pid, max_pid, product_id) ==
    min_pid <= product_id /\ product_id < max_pid

\* min_pid <= product_id <= max_pid
RangeContains(min_pid, max_pid, product_id) == min_pid <= product_id /\ product_id <= max_pid

\* _has_registration_for_advertisement
HasRegistrationForAdvertisement(dir, mac, mfg_id, product_id) ==
    \/ mac \in DOMAIN dir.mac
    \/ /\ IsSet(product_id)
       /\ \/ <<mfg_id, Val(product_id)>> \in DOMAIN dir.pid
          \/ \E key \in DOMAIN dir.range :
                key[1] = mfg_id /\ RangeContains(key[2], key[3], Val(product_id))
    \/ mfg_id \in DOMAIN dir.mfg

NoDelivery == [event |-> None, paths |-> EmptyDict]

\* the range keys whose loop body runs in _emit_advertisement
MatchingRanges(dir, mfg_id, product_id) ==
    IF IsSet(product_id)
    THEN {key \in DOMAIN dir.range :
            key[1] = mfg_id /\ RangeContains(key[2], key[3], Val(product_id))}
    ELSE {}

\* faulty variant: the loop over the MAC registrations is missing
TimesReachedWithoutMac(dir, path, mac, mfg_id, product_id) ==
      (IF path \in Get(dir.mfg, mfg_id, {}) THEN 1 ELSE 0)
    + (IF IsSet(product_id) /\ path \in Get(dir.pid, <<mfg_id, Val(product_id)>>, {})
       THEN 1 ELSE 0)
    + Cardinality({key \in MatchingRanges(dir, mfg_id, product_id) : path \in dir.range[key]})

\* faulty variant: the product loop takes every product of the manufacturer
TimesReachedAnyProduct(dir, path, mac, mfg_id, product_id) ==
      (IF path \in Get(dir.mfg, mfg_id, {}) THEN 1 ELSE 0)
    + (IF IsSet(product_id) /\ \E key \in DOMAIN dir.pid : key[1] = mfg_id /\ path \in dir.pid[key]
       THEN 1 ELSE 0)
    + Cardinality({key \in MatchingRanges(dir, mfg_id, product_id) : path \in dir.range[key]})
    + (IF path \in Get(dir.mac, mac, {}) THEN 1 ELSE 0)

\* how many times the four loops of _emit_advertisement reach `path`
TimesReached(dir, path, mac, mfg_id, product_id) ==
      (IF path \in Get(dir.mfg, mfg_id, {}) THEN 1 ELSE 0)
    + (IF IsSet(product_id) /\ path \in Get(dir.pid, <<mfg_id, Val(product_id)>>, {})
       THEN 1 ELSE 0)
    + Cardinality({key \in MatchingRanges(dir, mfg_id, product_id) : path \in dir.range[key]})
    + (IF path \in Get(dir.mac, mac, {}) THEN 1 ELSE 0)

\* dbus.UInt16(mfg_id) and dbus.Int16(rssi) raise OverflowError outside their range
FitsDbusTypes(mfg_id, rssi) ==
    mfg_id >= 0 /\ mfg_id <= 65535 /\ rssi >= -32768 /\ rssi <= 32767

\* faulty variant: nothing is sent once a reached path has no emitter
EmissionAllOrNothing(dir, ems, names, mac, mfg_id, data, rssi, interface) ==
    LET product_id == ExtractProductId(data)
        matched == {p \in ActivePaths(dir) : TimesReached(dir, p, mac, mfg_id, product_id) > 0}
        reached == IF matched \subseteq ems THEN matched ELSE {}
    IN IF ~FitsDbusTypes(mfg_id, rssi) THEN NoDelivery
       ELSE [event |-> Some([mac |-> mac, manufacturer_id |-> mfg_id, data |-> data,
                             rssi |-> rssi, interface |-> interface,
                             name |-> Get(names, mac, "")]),
             paths |-> [p \in reached |-> TimesReached(dir, p, mac, mfg_id, product_id)]]

\* faulty variant: a device without a name of its own is given one seen for another
EmissionBorrowsName(dir, ems, names, mac, mfg_id, data, rssi, interface) ==
    LET product_id == ExtractProductId(data)
        reached == {p \in ems : TimesReached(dir, p, mac, mfg_id, product_id) > 0}
        any == IF DOMAIN names = {} THEN "" ELSE names[CHOOSE m \in DOMAIN names : TRUE]
    IN IF ~FitsDbusTypes(mfg_id, rssi) THEN NoDelivery
       ELSE [event |-> Some([mac |-> mac, manufacturer_id |-> mfg_id, data |-> data,
                             rssi |-> rssi, interface |-> interface,
                             name |-> Get(names, mac, any)]),
             paths |-> [p \in reached |-> TimesReached(dir, p, mac, mfg_id, product_id)]]

\* the signals of _emit_advertisement: the event, and per path with an emitter the
\* number of Advertisement signals sent on it
Emission(dir, ems, names, mac, mfg_id, data, rssi, interface) ==
    LET product_id == ExtractProductId(data)
        reached == {p \in ems : TimesReached(dir, p, mac, mfg_id, product_id) > 0}
    IN IF ~FitsDbusTypes(mfg_id, rssi) THEN NoDelivery
       ELSE [event |-> Some([mac |-> mac, manufacturer_id |-> mfg_id, data |-> data,
                             rssi |-> rssi, interface |-> interface,
                             name |-> Get(names, mac, "")]),
             paths |-> [p \in reached |-> TimesReached(dir, p, mac, mfg_id, product_id)]]

\* the warnings of the loop over the MAC registrations: the paths of the MAC that
\* have no emitter and were not warned about before
MissingWarned(dir, ems, logged, mac) == (Get(dir.mac, mac, {}) \ ems) \ logged

\* emitted_count
EmittedCount(d) ==
    LET RECURSIVE Sum(_)
        Sum(P) == IF P = {} THEN 0
                  ELSE LET p == CHOOSE q \in P : TRUE IN d.paths[p] + Sum(P \ {p})
    IN Sum(DOMAIN d.paths)

\* faulty variant: a packet logged at INFO level is taken for not routed, its route
\* time is withdrawn
LogThrottleTouchesRoute(devices, relay_id, d, log_ivl, t) ==
    IF /\ EmittedCount(d) > 0
       /\ log_ivl # 0
       /\ relay_id \in DOMAIN devices
       /\ t - devices[relay_id].last_log_time >= log_ivl
    THEN [devices EXCEPT ![relay_id].last_log_time = t, ![relay_id].timestamp = 0]
    ELSE devices

\* the log throttle at the end of _emit_advertisement: last_log_time of the entry
LogThrottle(devices, relay_id, d, log_ivl, t) ==
    IF /\ EmittedCount(d) > 0
       /\ log_ivl # 0
       /\ relay_id \in DOMAIN devices
       /\ t - devices[relay_id].last_log_time >= log_ivl
    THEN [devices EXCEPT ![relay_id].last_log_time = t]
    ELSE devices

\* faulty variant: no switch and no cache entry is created
AddDiscoveredDeviceNever(devices, relays, discovery, relay_id) ==
    [devices |-> devices, relays |-> relays]

\* _add_discovered_device: the cache and the switches after it
AddDiscoveredDevice(devices, relays, discovery, relay_id) ==
    IF discovery = 0 THEN [devices |-> devices, relays |-> relays]
    ELSE IF relay_id \in DOMAIN devices THEN [devices |-> devices, relays |-> relays]
    ELSE IF relay_id \in DOMAIN relays THEN
        [devices |-> Put(devices, relay_id,
                         [route |-> relays[relay_id] = 1, previous |-> None,
                          timestamp |-> 0, last_log_time |-> 0]),
         relays |-> relays]
    ELSE
        [devices |-> Put(IF Cardinality(DOMAIN devices) > CACHE_LIMIT THEN EmptyDict ELSE devices,
                         relay_id,
                         [route |-> TRUE, previous |-> None, timestamp |-> 0,
                          last_log_time |-> 0]),
         relays |-> Put(relays, relay_id, 1)]

\* faulty variant: the device switch is ignored
RoutingDisabledNever(cache_entry) == FALSE

\* `if not cache_entry['route']`: the device is disabled for routing
RoutingDisabled(cache_entry) == ~cache_entry.route

\* faulty variant: the interval 0 does not switch the filter off
IsRepeatAtZero(previous, data, elapsed, interval) ==
    previous = Some(data) /\ elapsed <= interval

\* faulty variant: the interval boundary is exclusive
IsRepeatInclusive(previous, data, elapsed, interval) ==
    interval > 0 /\ previous = Some(data) /\ elapsed <= interval

\* the repeat filter: an identical payload before the interval has passed
IsRepeat(previous, data, elapsed, interval) ==
    interval > 0 /\ previous = Some(data) /\ elapsed < interval

\* faulty variant: the cache takes the payload only when a signal went out
RouteAdvertisementIfSent(dir, ems, names, devices, relays, discovery, interval, log_ivl, t, mac, mfg_id, data, rssi, interface) ==
    LET relay_id == RelayId(mac)
        unchanged == [devices |-> devices, relays |-> relays, delivered |-> NoDelivery]
        sent == Emission(dir, ems, names, mac, mfg_id, data, rssi, interface)
    IN IF ~HasRegistrationForAdvertisement(dir, mac, mfg_id, ExtractProductId(data))
       THEN unchanged
       ELSE IF relay_id \in DOMAIN devices THEN
            IF RoutingDisabled(devices[relay_id]) THEN unchanged
            ELSE IF IsRepeat(devices[relay_id].previous, data,
                             t - devices[relay_id].timestamp, interval)
            THEN unchanged
            ELSE [devices |-> IF sent.paths = EmptyDict THEN devices
                              ELSE LogThrottle([devices EXCEPT ![relay_id].previous = Some(data),
                                                               ![relay_id].timestamp = t],
                                               relay_id, sent, log_ivl, t),
                  relays |-> relays,
                  delivered |-> sent]
       ELSE IF discovery = 1 THEN
            LET added == AddDiscoveredDevice(devices, relays, discovery, relay_id)
                seeded == IF relay_id \in DOMAIN added.devices /\ sent.paths # EmptyDict
                          THEN [added.devices EXCEPT ![relay_id].previous = Some(data),
                                                     ![relay_id].timestamp = t]
                          ELSE added.devices
            IN [devices |-> LogThrottle(seeded, relay_id, sent, log_ivl, t),
                relays |-> added.relays,
                delivered |-> sent]
       ELSE unchanged

\* process_advertisement for decoded data: the cache, the switches and the signals after it
RouteAdvertisement(dir, ems, names, devices, relays, discovery, interval, log_ivl, t, mac, mfg_id, data, rssi, interface) ==
    LET relay_id == RelayId(mac)
        unchanged == [devices |-> devices, relays |-> relays, delivered |-> NoDelivery]
        sent == Emission(dir, ems, names, mac, mfg_id, data, rssi, interface)
    IN IF ~HasRegistrationForAdvertisement(dir, mac, mfg_id, ExtractProductId(data))
       THEN unchanged
       ELSE IF relay_id \in DOMAIN devices THEN
            IF RoutingDisabled(devices[relay_id]) THEN unchanged
            ELSE IF IsRepeat(devices[relay_id].previous, data,
                             t - devices[relay_id].timestamp, interval)
            THEN unchanged
            ELSE [devices |-> LogThrottle([devices EXCEPT ![relay_id].previous = Some(data),
                                                          ![relay_id].timestamp = t],
                                          relay_id, sent, log_ivl, t),
                  relays |-> relays,
                  delivered |-> sent]
       ELSE IF discovery = 1 THEN
            LET added == AddDiscoveredDevice(devices, relays, discovery, relay_id)
                seeded == IF relay_id \in DOMAIN added.devices
                          THEN [added.devices EXCEPT ![relay_id].previous = Some(data),
                                                     ![relay_id].timestamp = t]
                          ELSE added.devices
            IN [devices |-> LogThrottle(seeded, relay_id, sent, log_ivl, t),
                relays |-> added.relays,
                delivered |-> sent]
       ELSE unchanged

\* process_advertisement: bytes.fromhex first, a ValueError ends it
ProcessAdvertisement(dir, ems, names, devices, relays, discovery, interval, log_ivl, t, mac, mfg_id, hex_data, rssi, interface) ==
    IF FromHex(hex_data) = None
    THEN [devices |-> devices, relays |-> relays, delivered |-> NoDelivery]
    ELSE RouteAdvertisement(dir, ems, names, devices, relays, discovery, interval, log_ivl, t,
                            mac, mfg_id, Val(FromHex(hex_data)), rssi, interface)

(***************************************************************************)
(* btmon output: the lines fed to the router.                              *)
(***************************************************************************)
MacA == "AA:BB:CC:DD:EE:FF"
MacB == "11:22:33:44:55:66"

LineHci0 == "> HCI Event: LE Meta Event (0x3e) plen 43 #7 [hci0] 2.5\n"
LineHci1 == "> HCI Event: LE Meta Event (0x3e) plen 43 #8 [hci1] 2.6\n"
LineReport == "      LE Advertising Report (0x02)\n"
LineAddrA == "        Address: AA:BB:CC:DD:EE:FF (Public)\n"
LineAddrB == "        LE Address: 11:22:33:44:55:66 (Random)\n"
LineHciAddrB == "@ Device Found [hci1] LE Address: 11:22:33:44:55:66\n"
LineDataLength == "        Data length: 31\n"
LineNameTank == "        Name (complete): Tank1\n"
LineNameGauge == "        Name: Gauge\n"
LineRssi == "        RSSI: -60 dBm (0xc4)\n"
LineCompany737 == "        Company: Victron Energy BV (737)\n"
LineCompany305 == "        Company: Cypress Semiconductor (305)\n"
LineData1027 == "          Data: 0102030405\n"
LineData1028 == "          Data: 01020404\n"
LineDataShort == "          Data: 0a0b0c\n"
LineDataOdd == "          Data: 012\n"
LineHciData == "[hci1] Data: 0102030405\n"

\* the n-th of many devices, n below 4096, and the address line btmon prints for it
HexChar(i) ==
    <<"0", "1", "2", "3", "4", "5", "6", "7", "8", "9", "A", "B", "C", "D", "E", "F">>[i + 1]
MacOf(n) ==
    "AA:BB:CC:0" \o HexChar(n \div 256) \o ":" \o HexChar((n \div 16) % 16) \o
    HexChar(n % 16) \o ":FF"
LineAddrOf(n) == "        Address: " \o MacOf(n) \o " (Public)\n"
\* the first device and the one that comes after a cache at its limit
FloodDevices == CACHE_LIMIT + 2
FloodAddrLines == {LineAddrOf(0), LineAddrOf(FloodDevices - 1)}

BtmonLines ==
    {LineHci0, LineHci1, LineReport, LineAddrA, LineAddrB, LineHciAddrB, LineDataLength,
     LineNameTank, LineNameGauge, LineRssi, LineCompany737, LineCompany305,
     LineData1027, LineData1028, LineDataShort, LineDataOdd, LineHciData}

\* what the six searches of parse_btmon_line find in a line, after line.strip()
Searches(l) ==
    LET line == Strip(l)
    IN [hci |-> HciMatch(line), mac |-> MacMatch(line), name |-> NameMatch(line),
        rssi |-> RssiMatch(line), company |-> CompanyMatch(line), data |-> DataMatch(line)]
Searched == [l \in BtmonLines \cup FloodAddrLines |-> Searches(l)]

(***************************************************************************)
(* parse_btmon_line.                                                       *)
(***************************************************************************)
ParserState ==
    [mac |-> current_mac, name |-> current_name, mfg_id |-> current_mfg_id,
     rssi |-> current_rssi, interface |-> current_interface]

\* x or default
OrDefault(o, default) == IF IsSet(o) THEN Val(o) ELSE default

\* faulty variant: the RSSI of the previous record survives a new address
AfterAddressKeepsRssi(st, mac) ==
    [st EXCEPT !.mac = mac, !.name = None, !.mfg_id = None]

\* the address branch: a new record starts
AfterAddress(st, mac) ==
    [st EXCEPT !.mac = mac, !.name = None, !.mfg_id = None, !.rssi = None]

\* faulty variant: the interface survives the reset
AfterDataKeepsInterface(st) ==
    [st EXCEPT !.mac = None, !.mfg_id = None, !.rssi = None]

\* "Reset state after processing", at the end of the data branch
AfterData(st) ==
    [st EXCEPT !.mac = None, !.mfg_id = None, !.rssi = None, !.interface = None]

\* faulty variant: the pending RSSI is not passed on
CallOfWithoutRssi(st, hex_data) ==
    [mac |-> Val(st.mac), mfg_id |-> Val(st.mfg_id), hex_data |-> hex_data,
     rssi |-> 0,
     interface |-> OrDefault(st.interface, "hci0")]

\* the arguments of the call of process_advertisement in the data branch
CallOf(st, hex_data) ==
    [mac |-> Val(st.mac), mfg_id |-> Val(st.mfg_id), hex_data |-> hex_data,
     rssi |-> OrDefault(st.rssi, 0),
     interface |-> OrDefault(st.interface, "hci0")]

\* the data branch is entered: a MAC and a manufacturer ID are pending
DataAccepted(st) == IsSet(st.mac) /\ IsSet(st.mfg_id)

\* faulty variant: a payload that does not decode leaves the record pending
ParseBtmonLineKeepsUndecoded(st, names, m) ==
    LET st1 == [st EXCEPT !.interface = IF IsSet(m.hci) THEN m.hci ELSE @]
    IN IF IsSet(m.mac) THEN
            [st |-> AfterAddress(st1, m.mac), names |-> names, call |-> <<>>]
       ELSE IF IsSet(m.name) /\ IsSet(st1.mac) THEN
            [st |-> [st1 EXCEPT !.name = m.name],
             names |-> Put(names, Val(st1.mac), Val(m.name)), call |-> <<>>]
       ELSE IF IsSet(m.rssi) THEN
            [st |-> [st1 EXCEPT !.rssi = m.rssi], names |-> names, call |-> <<>>]
       ELSE IF IsSet(m.company) THEN
            [st |-> [st1 EXCEPT !.mfg_id = m.company], names |-> names, call |-> <<>>]
       ELSE IF DataAccepted(st1) /\ IsSet(m.data) THEN
            [st |-> IF FromHex(Val(m.data)) = None THEN st1 ELSE AfterData(st1),
             names |-> names, call |-> <<CallOf(st1, Val(m.data))>>]
       ELSE [st |-> st1, names |-> names, call |-> <<>>]

\* faulty variant: a line no search recognises drops the pending record
ParseBtmonLineDropsPending(st, names, m) ==
    LET st1 == [st EXCEPT !.interface = IF IsSet(m.hci) THEN m.hci ELSE @]
    IN IF IsSet(m.mac) THEN
            [st |-> AfterAddress(st1, m.mac), names |-> names, call |-> <<>>]
       ELSE IF IsSet(m.name) /\ IsSet(st1.mac) THEN
            [st |-> [st1 EXCEPT !.name = m.name],
             names |-> Put(names, Val(st1.mac), Val(m.name)), call |-> <<>>]
       ELSE IF IsSet(m.rssi) THEN
            [st |-> [st1 EXCEPT !.rssi = m.rssi], names |-> names, call |-> <<>>]
       ELSE IF IsSet(m.company) THEN
            [st |-> [st1 EXCEPT !.mfg_id = m.company], names |-> names, call |-> <<>>]
       ELSE IF DataAccepted(st1) /\ IsSet(m.data) THEN
            [st |-> AfterData(st1), names |-> names, call |-> <<CallOf(st1, Val(m.data))>>]
       ELSE [st |-> AfterData(st1), names |-> names, call |-> <<>>]

\* parse_btmon_line on the searches m of a line: the parsing state and the name
\* cache after it, and the call of process_advertisement it makes (<<>>: none)
ParseBtmonLine(st, names, m) ==
    LET st1 == [st EXCEPT !.interface = IF IsSet(m.hci) THEN m.hci ELSE @]
    IN IF IsSet(m.mac) THEN
            [st |-> AfterAddress(st1, m.mac), names |-> names, call |-> <<>>]
       ELSE IF IsSet(m.name) /\ IsSet(st1.mac) THEN
            [st |-> [st1 EXCEPT !.name = m.name],
             names |-> Put(names, Val(st1.mac), Val(m.name)), call |-> <<>>]
       ELSE IF IsSet(m.rssi) THEN
            [st |-> [st1 EXCEPT !.rssi = m.rssi], names |-> names, call |-> <<>>]
       ELSE IF IsSet(m.company) THEN
            [st |-> [st1 EXCEPT !.mfg_id = m.company], names |-> names, call |-> <<>>]
       ELSE IF DataAccepted(st1) /\ IsSet(m.data) THEN
            [st |-> AfterData(st1), names |-> names, call |-> <<CallOf(st1, Val(m.data))>>]
       ELSE [st |-> st1, names |-> names, call |-> <<>>]

(***************************************************************************)
(* The bus: the services that come and go, and the objects they export.    *)
(***************************************************************************)
SvcE2E == "com.victronenergy.e2etest"
SvcOrion == "com.victronenergy.orion_tr"
SvcTank == "com.victronenergy.tank"
SvcSystem == "com.victronenergy.system"
SvcBluez == "org.bluez"
UniqueName == ":1.42"
SvcSpell == "com.victronenergy.spell"
SvcBad == "com.victronenergy.bad"
SvcDoc == "com.victronenergy.doc"
SvcTank2 == "com.victronenergy.tank2"

PathMfgr737 == "/ble_advertisements/e2etest/mfgr/737"
PathMfgr305 == "/ble_advertisements/e2etest/mfgr/305"
PathAddrA == "/ble_advertisements/orion_tr/addr/aa_bb_cc_dd_ee_ff"
PathProduct == "/ble_advertisements/orion_tr/mfgr_product/737_1027"
PathRangeLow == "/ble_advertisements/orion_tr/mfgr_product_range/737_1000_1027"
PathRangeHigh == "/ble_advertisements/orion_tr/mfgr_product_range/737_1028_2000"
PathAddrB == "/ble_advertisements/tank/addr/112233445566"
PathSoc == "/Dc/Battery/Soc"
\* one MAC in three spellings
PathAddrLower == "/ble_advertisements/spell/addr/aa_bb_cc_dd_ee_ff"
PathAddrBare == "/ble_advertisements/spell/addr/AABBCCDDEEFF"
PathAddrMixed == "/ble_advertisements/spell/addr/Aa_bB_cC_dD_eE_fF"
\* declarations whose parameters do not parse for their kind
PathBadMfgr == "/ble_advertisements/bad/mfgr/0x2e1"
PathBadProduct == "/ble_advertisements/bad/mfgr_product/737"
PathBadRange == "/ble_advertisements/bad/mfgr_product_range/737_1000"
PathBadAddr == "/ble_advertisements/bad/addr/zz_11"
\* the layout of the module docstring
PathDocPid == "/ble_advertisements/doc/mfgr/737/pid/1027"
PathDocRange == "/ble_advertisements/doc/mfgr/305/pid_range/1000_2000"
\* a service whose name begins with the name of another
PathTank2Mfgr == "/ble_advertisements/tank2/mfgr/737"

\* the objects a service exports
ObjectTree(name) ==
    CASE name = SvcE2E -> {PathMfgr737, PathMfgr305}
      [] name = SvcOrion -> {PathAddrA, PathProduct, PathRangeLow, PathRangeHigh}
      [] name = SvcTank -> {PathAddrB}
      [] name = SvcSystem -> {PathSoc}
      [] name = SvcSpell -> {PathAddrLower, PathAddrBare, PathAddrMixed}
      [] name = SvcBad -> {PathBadMfgr, PathBadProduct, PathBadRange, PathBadAddr}
      [] name = SvcDoc -> {PathDocPid, PathDocRange}
      [] name = SvcTank2 -> {PathTank2Mfgr}
      [] OTHER -> {}

BusNames ==
    {SvcE2E, SvcOrion, SvcTank, SvcSystem, SvcBluez, UniqueName, SvcSpell, SvcBad, SvcDoc,
     SvcTank2}

\* Introspect calls in flight per service, at most
MaxInFlight == 1

\* a clock past every interval, as time.time() is
StartTime == DEFAULT_LOG_INTERVAL + DEFAULT_REPEAT_INTERVAL
\* the clock stops advancing here
MaxElapsed == 1200

StartsWith(s, t) == At(s, 1, t)

(***************************************************************************)
(* The router after __init__.                                              *)
(***************************************************************************)
Init ==
    /\ current_mac = None
    /\ current_name = None
    /\ current_mfg_id = None
    /\ current_rssi = None
    /\ current_interface = None
    /\ device_names = EmptyDict
    /\ mfg_registrations = EmptyDict
    /\ mac_registrations = EmptyDict
    /\ pid_registrations = EmptyDict
    /\ pid_range_registrations = EmptyDict
    /\ emitters = {}
    /\ discovered_devices = EmptyDict
    /\ relay_state = EmptyDict
    /\ discovery_state = 1
    /\ repeat_interval = DEFAULT_REPEAT_INTERVAL
    /\ log_interval = DEFAULT_LOG_INTERVAL
    /\ now = StartTime
    /\ bus_names = {}
    /\ pending_introspect = [n \in BusNames |-> 0]
    /\ btmon_pipe = <<>>
    /\ handed = <<>>
    /\ delivered = NoDelivery
    /\ last_op = [op |-> "init", arg |-> ""]
    /\ pending_scan_services = <<>>
    /\ scan_timers = 0
    /\ heartbeat = StartTime
    /\ btmon_proc = "running"
    /\ btmon_watch = TRUE
    /\ mainloop = "running"
    /\ missing_emitter_logged = {}
    /\ warnings = EmptyDict

\* a handler that reads no line: no call of process_advertisement, no signal
Quiet ==
    handed' = <<>> /\ delivered' = NoDelivery /\ UNCHANGED <<btmon_pipe, run_vars, log_vars>>

SetDirectory(dir) ==
    /\ mfg_registrations' = dir.mfg
    /\ mac_registrations' = dir.mac
    /\ pid_registrations' = dir.pid
    /\ pid_range_registrations' = dir.range

(***************************************************************************)
(* process_btmon_output: one line read from btmon and parsed.              *)
(***************************************************************************)
\* faulty variant: the dispatch creates the channel it found missing
ReadLineCreatesChannels(l) ==
    LET r == ParseBtmonLine(ParserState, device_names, Searched[l])
        out == IF r.call = <<>>
               THEN [devices |-> discovered_devices, relays |-> relay_state,
                     delivered |-> NoDelivery]
               ELSE ProcessAdvertisement(Directory, emitters, r.names, discovered_devices,
                                         relay_state, discovery_state, repeat_interval,
                                         log_interval, now, r.call[1].mac, r.call[1].mfg_id,
                                         r.call[1].hex_data, r.call[1].rssi,
                                         r.call[1].interface)
        warned == IF IsSet(out.delivered.event)
                  THEN MissingWarned(Directory, emitters, missing_emitter_logged,
                                     r.call[1].mac)
                  ELSE {}
    IN /\ mainloop = "running"
       /\ btmon_watch
       /\ current_mac' = r.st.mac
       /\ current_name' = r.st.name
       /\ current_mfg_id' = r.st.mfg_id
       /\ current_rssi' = r.st.rssi
       /\ current_interface' = r.st.interface
       /\ device_names' = r.names
       /\ handed' = r.call
       /\ discovered_devices' = out.devices
       /\ relay_state' = out.relays
       /\ delivered' = out.delivered
       /\ last_op' = [op |-> "line", arg |-> l]
       /\ missing_emitter_logged' = missing_emitter_logged \cup warned
       /\ warnings' = [p \in DOMAIN warnings \cup warned |->
                          Get(warnings, p, 0) + IF p \in warned THEN 1 ELSE 0]
       /\ emitters' = emitters \cup warned
       /\ UNCHANGED <<mfg_registrations, mac_registrations, pid_registrations,
                      pid_range_registrations, setting_vars, bus_vars, now, run_vars>>

\* the handler as the code has it
ReadLine(l) ==
    LET r == ParseBtmonLine(ParserState, device_names, Searched[l])
        out == IF r.call = <<>>
               THEN [devices |-> discovered_devices, relays |-> relay_state,
                     delivered |-> NoDelivery]
               ELSE ProcessAdvertisement(Directory, emitters, r.names, discovered_devices,
                                         relay_state, discovery_state, repeat_interval,
                                         log_interval, now, r.call[1].mac, r.call[1].mfg_id,
                                         r.call[1].hex_data, r.call[1].rssi,
                                         r.call[1].interface)
        warned == IF IsSet(out.delivered.event)
                  THEN MissingWarned(Directory, emitters, missing_emitter_logged,
                                     r.call[1].mac)
                  ELSE {}
    IN /\ mainloop = "running"
       /\ btmon_watch
       /\ current_mac' = r.st.mac
       /\ current_name' = r.st.name
       /\ current_mfg_id' = r.st.mfg_id
       /\ current_rssi' = r.st.rssi
       /\ current_interface' = r.st.interface
       /\ device_names' = r.names
       /\ handed' = r.call
       /\ discovered_devices' = out.devices
       /\ relay_state' = out.relays
       /\ delivered' = out.delivered
       /\ last_op' = [op |-> "line", arg |-> l]
       /\ missing_emitter_logged' = missing_emitter_logged \cup warned
       /\ warnings' = [p \in DOMAIN warnings \cup warned |->
                          Get(warnings, p, 0) + IF p \in warned THEN 1 ELSE 0]
       /\ UNCHANGED <<directory_vars, setting_vars, bus_vars, now, run_vars>>

\* btmon writes any line and the router reads it
FeedLine(l) ==
    btmon_proc = "running" /\ btmon_pipe = <<>> /\ ReadLine(l) /\ UNCHANGED btmon_pipe

\* the loop of _emit_advertisement that sends on path p: 1 manufacturer, 2 product,
\* 3 range, 4 MAC, in the order the loops run
LoopOf(dir, p) ==
    IF p \in IndexPaths(dir.mfg) THEN 1
    ELSE IF p \in IndexPaths(dir.pid) THEN 2
    ELSE IF p \in IndexPaths(dir.range) THEN 3
    ELSE 4

\* the sets of paths that may have been sent on when Advertisement raises on path
\* `rejecting`: the exception leaves all four loops, so every path of an earlier loop
\* was sent on, no path of a later loop, and of the same loop those the set iteration
\* happened to reach first
SentBefore(dir, d, rejecting) ==
    {S \in SUBSET (DOMAIN d.paths \ {rejecting}) :
        \A p \in DOMAIN d.paths \ {rejecting} :
            /\ LoopOf(dir, p) < LoopOf(dir, rejecting) => p \in S
            /\ LoopOf(dir, p) > LoopOf(dir, rejecting) => p \notin S}

\* process_btmon_output for a line that completes a record and routes it, when the
\* signal on path `rejecting` raises after the paths `sent`: the except clause of
\* _emit_advertisement logs the failure, the log throttle is not reached
FeedLineRejected(l, rejecting, sent) ==
    LET r == ParseBtmonLine(ParserState, device_names, Searched[l])
        out == IF r.call = <<>>
               THEN [devices |-> discovered_devices, relays |-> relay_state,
                     delivered |-> NoDelivery]
               ELSE ProcessAdvertisement(Directory, emitters, r.names, discovered_devices,
                                         relay_state, discovery_state, repeat_interval,
                                         log_interval, now, r.call[1].mac, r.call[1].mfg_id,
                                         r.call[1].hex_data, r.call[1].rssi,
                                         r.call[1].interface)
        warned == IF LoopOf(Directory, rejecting) = 4
                  THEN MissingWarned(Directory, emitters, missing_emitter_logged,
                                     r.call[1].mac)
                  ELSE {}
    IN /\ mainloop = "running"
       /\ btmon_watch
       /\ btmon_proc = "running"
       /\ btmon_pipe = <<>>
       /\ IsSet(out.delivered.event)
       /\ rejecting \in DOMAIN out.delivered.paths
       /\ sent \in SentBefore(Directory, out.delivered, rejecting)
       /\ current_mac' = r.st.mac
       /\ current_name' = r.st.name
       /\ current_mfg_id' = r.st.mfg_id
       /\ current_rssi' = r.st.rssi
       /\ current_interface' = r.st.interface
       /\ device_names' = r.names
       /\ handed' = r.call
       /\ discovered_devices' =
             [id \in DOMAIN out.devices |->
                 [out.devices[id] EXCEPT !.last_log_time =
                     IF id \in DOMAIN discovered_devices
                     THEN discovered_devices[id].last_log_time ELSE 0]]
       /\ relay_state' = out.relays
       /\ delivered' = [event |-> out.delivered.event,
                        paths |-> [p \in sent |-> out.delivered.paths[p]]]
       /\ last_op' = [op |-> "rejected", arg |-> rejecting]
       /\ \E W \in SUBSET warned :
             /\ missing_emitter_logged' = missing_emitter_logged \cup W
             /\ warnings' = [p \in DOMAIN warnings \cup W |->
                                Get(warnings, p, 0) + IF p \in W THEN 1 ELSE 0]
       /\ UNCHANGED <<directory_vars, setting_vars, bus_vars, now, btmon_pipe, run_vars>>

\* the router reads the next line of what btmon has written
ReadPipe == btmon_pipe # <<>> /\ ReadLine(Head(btmon_pipe)) /\ btmon_pipe' = Tail(btmon_pipe)

\* the btmon process ends on its own: its output is closed
BtmonExits ==
    /\ btmon_proc = "running"
    /\ mainloop = "running"
    /\ btmon_proc' = "ended"
    /\ last_op' = [op |-> "btmon_exit", arg |-> ""]
    /\ handed' = <<>>
    /\ delivered' = NoDelivery
    /\ UNCHANGED <<parser_vars, directory_vars, device_vars, setting_vars, bus_vars, now,
                   btmon_pipe, pending_scan_services, scan_timers, heartbeat, btmon_watch,
                   mainloop, log_vars>>

\* process_btmon_output called with the hang-up alone (nothing is left to read): the
\* error is logged and False returned, which removes the watch and nothing else
HandleHup ==
    /\ mainloop = "running"
    /\ btmon_watch
    /\ btmon_proc # "running"
    /\ btmon_pipe = <<>>
    /\ btmon_watch' = FALSE
    /\ last_op' = [op |-> "hup", arg |-> ""]
    /\ handed' = <<>>
    /\ delivered' = NoDelivery
    /\ UNCHANGED <<parser_vars, directory_vars, device_vars, setting_vars, bus_vars, now,
                   btmon_pipe, pending_scan_services, scan_timers, heartbeat, btmon_proc,
                   mainloop, log_vars>>

\* cleanup, the handler of SIGINT and SIGTERM: btmon is terminated and the process exits
Cleanup ==
    /\ mainloop = "running"
    /\ btmon_proc' = IF btmon_proc = "running" THEN "terminated" ELSE btmon_proc
    /\ mainloop' = "exited"
    /\ last_op' = [op |-> "cleanup", arg |-> ""]
    /\ handed' = <<>>
    /\ delivered' = NoDelivery
    /\ UNCHANGED <<parser_vars, directory_vars, device_vars, setting_vars, bus_vars, now,
                   btmon_pipe, pending_scan_services, scan_timers, heartbeat, btmon_watch,
                   log_vars>>

(***************************************************************************)
(* _on_name_owner_changed and the asynchronous introspection.              *)
(***************************************************************************)
\* _check_service_registrations: whether Introspect is called for the service
IsProbed(service_name) == StartsWith(service_name, "com.victronenergy.")

\* NameOwnerChanged(name, '', owner): the name appeared
ServiceAppeared(name) ==
    /\ name \notin bus_names
    /\ pending_introspect[name] < MaxInFlight
    /\ bus_names' = bus_names \cup {name}
    /\ pending_introspect' =
          IF ~StartsWith(name, ":") /\ IsProbed(name)
          THEN [pending_introspect EXCEPT ![name] = @ + 1]
          ELSE pending_introspect
    /\ last_op' = [op |-> "appeared", arg |-> name]
    /\ Quiet
    /\ UNCHANGED <<parser_vars, directory_vars, device_vars, setting_vars, now>>

\* NameOwnerChanged(name, owner, ''): the name disappeared
ServiceDisappeared(name) ==
    LET skip == StartsWith(name, ":")
        gone == IF skip THEN {} ELSE EmittersToRemove(emitters, name)
    IN /\ name \in bus_names
       /\ bus_names' = bus_names \ {name}
       /\ SetDirectory(IF skip THEN Directory ELSE RemoveServiceFromDirectory(Directory, name))
       /\ emitters' = emitters \ gone
       /\ discovered_devices' = IF gone # {} THEN EmptyDict ELSE discovered_devices
       /\ last_op' = [op |-> "disappeared", arg |-> name]
       /\ Quiet
       /\ UNCHANGED <<parser_vars, relay_state, setting_vars, pending_introspect, now>>

\* faulty variant: the device cache survives the new registrations
IntrospectReplyKeepsCache(name, failing) ==
    LET tree == ObjectTree(name)
        dir == ParseRegistrations(Directory, tree)
    IN /\ pending_introspect[name] > 0
       /\ name \in bus_names
       /\ pending_introspect' = [pending_introspect EXCEPT ![name] = @ - 1]
       /\ IF RootXmlMentions(tree)
          THEN SetDirectory(dir) /\ emitters' = UpdateEmitters(dir, emitters, failing)
          ELSE UNCHANGED directory_vars
       /\ last_op' = [op |-> "reply", arg |-> name]
       /\ Quiet
       /\ UNCHANGED <<parser_vars, device_vars, setting_vars, bus_names, now>>

\* _on_introspect_reply, with the emitters whose creation raises
IntrospectReply(name, failing) ==
    LET tree == ObjectTree(name)
        dir == ParseRegistrations(Directory, tree)
    IN /\ pending_introspect[name] > 0
       /\ name \in bus_names
       /\ pending_introspect' = [pending_introspect EXCEPT ![name] = @ - 1]
       /\ IF RootXmlMentions(tree)
          THEN /\ SetDirectory(dir)
               /\ emitters' = UpdateEmitters(dir, emitters, failing)
               /\ discovered_devices' = EmptyDict
          ELSE UNCHANGED <<directory_vars, discovered_devices>>
       /\ last_op' = [op |-> "reply", arg |-> name]
       /\ Quiet
       /\ UNCHANGED <<parser_vars, relay_state, setting_vars, bus_names, now>>

\* faulty variant: a failed probe puts the service back in the scan queue
IntrospectErrorRequeues(name) ==
    /\ pending_introspect[name] > 0
    /\ pending_introspect' = [pending_introspect EXCEPT ![name] = @ - 1]
    /\ last_op' = [op |-> "error", arg |-> name]
    /\ pending_scan_services' = Append(pending_scan_services, name)
    /\ scan_timers' = 1
    /\ handed' = <<>>
    /\ delivered' = NoDelivery
    /\ UNCHANGED <<parser_vars, directory_vars, device_vars, setting_vars, bus_names, now,
                   btmon_pipe, heartbeat, btmon_proc, btmon_watch, mainloop, log_vars>>

\* _on_introspect_error
IntrospectError(name) ==
    /\ pending_introspect[name] > 0
    /\ pending_introspect' = [pending_introspect EXCEPT ![name] = @ - 1]
    /\ last_op' = [op |-> "error", arg |-> name]
    /\ Quiet
    /\ UNCHANGED <<parser_vars, directory_vars, device_vars, setting_vars, bus_names, now>>

(***************************************************************************)
(* The switches of the device: the callbacks of the writeable paths.       *)
(***************************************************************************)
\* faulty variant: the toggle leaves the device cache alone
DiscoveryChangedKeepsCache(value) ==
    /\ discovery_state' = value
    /\ last_op' = [op |-> "discovery", arg |-> ""]
    /\ Quiet
    /\ UNCHANGED <<parser_vars, directory_vars, device_vars, repeat_interval, log_interval,
                   bus_vars, now>>

\* _on_discovery_changed, accepted: the State path takes the value
DiscoveryChanged(value) ==
    /\ discovered_devices' = EmptyDict
    /\ discovery_state' = value
    /\ last_op' = [op |-> "discovery", arg |-> ""]
    /\ Quiet
    /\ UNCHANGED <<parser_vars, directory_vars, relay_state, repeat_interval, log_interval,
                   bus_vars, now>>

\* _on_relay_state_changed for the switch of a discovered device
RelayStateChanged(relay_id, value) ==
    /\ relay_id \in DOMAIN relay_state
    /\ discovered_devices' = EmptyDict
    /\ relay_state' = [relay_state EXCEPT ![relay_id] = value]
    /\ last_op' = [op |-> "relay", arg |-> relay_id]
    /\ Quiet
    /\ UNCHANGED <<parser_vars, directory_vars, setting_vars, bus_vars, now>>

\* the slider mapping of _on_repeat_interval_changed
SliderToInterval(slider_value) == IF slider_value <= 1 THEN 0 ELSE slider_value * 10

\* _on_repeat_interval_changed
RepeatIntervalChanged(slider_value) ==
    /\ repeat_interval' = SliderToInterval(slider_value)
    /\ discovered_devices' = EmptyDict
    /\ last_op' = [op |-> "repeat", arg |-> ""]
    /\ Quiet
    /\ UNCHANGED <<parser_vars, directory_vars, relay_state, discovery_state, log_interval,
                   bus_vars, now>>

\* the slider mapping of _on_log_interval_changed
LogSliderToInterval(slider_value) == IF slider_value <= 1 THEN 0 ELSE slider_value * 30

\* _on_log_interval_changed: the cache is left alone
LogIntervalChanged(slider_value) ==
    /\ log_interval' = LogSliderToInterval(slider_value)
    /\ last_op' = [op |-> "log", arg |-> ""]
    /\ Quiet
    /\ UNCHANGED <<parser_vars, directory_vars, device_vars, discovery_state,
                   repeat_interval, bus_vars, now>>

\* time passes
Tick(seconds) ==
    /\ now + seconds <= StartTime + MaxElapsed
    /\ now' = now + seconds
    /\ last_op' = [op |-> "tick", arg |-> ""]
    /\ Quiet
    /\ UNCHANGED <<parser_vars, directory_vars, device_vars, setting_vars, bus_vars>>

(***************************************************************************)
(* The status surface of RootObject and the heartbeat timer.               *)
(***************************************************************************)
HEARTBEAT_PERIOD == 600
STALE_AFTER == 1800
MaxUptime == 2400

\* RootObject.GetStatus at time t with heartbeat timestamp hb
GetStatus(t, hb) == IF t - hb < STALE_AFTER THEN "running" ELSE "stale"

\* the timeout of HEARTBEAT_PERIOD seconds fires and runs _update_heartbeat, which
\* writes a debug line and keeps the timer; RootObject.update_heartbeat is not called
UpdateHeartbeat ==
    /\ mainloop = "running"
    /\ now + HEARTBEAT_PERIOD <= StartTime + MaxUptime
    /\ now' = now + HEARTBEAT_PERIOD
    /\ heartbeat' = heartbeat
    /\ last_op' = [op |-> "heartbeat", arg |-> ""]
    /\ handed' = <<>>
    /\ delivered' = NoDelivery
    /\ UNCHANGED <<parser_vars, directory_vars, device_vars, setting_vars, bus_vars,
                   btmon_pipe, pending_scan_services, scan_timers, btmon_proc, btmon_watch,
                   mainloop, log_vars>>

(***************************************************************************)
(* The initial scan of run(): _schedule_initial_scan has queued the         *)
(* candidates and each timeout of _scan_next_service takes one.            *)
(***************************************************************************)
OwnName == "com.victronenergy.switch.ble_advertisements"

\* the list comprehension of _schedule_initial_scan over ListNames()
ScanCandidates(service_names) ==
    {n \in service_names : StartsWith(n, "com.victronenergy.") /\ ~StartsWith(n, ":") /\ n # OwnName}

\* the orders in which ListNames() may return the names S
Orderings(S) ==
    {q \in [1..Cardinality(S) -> S] : \A i, j \in 1..Cardinality(S) : q[i] = q[j] => i = j}

\* faulty variant: the Introspect call is issued twice
CheckServiceRegistrationsTwice(pending, service_name, names) ==
    [pending EXCEPT ![service_name] = @ + 2]

\* _check_service_registrations: the Introspect calls in flight after it; get_object
\* raises for a name that has no owner and no call is made
CheckServiceRegistrations(pending, service_name, names) ==
    IF IsProbed(service_name) /\ service_name \in names
    THEN [pending EXCEPT ![service_name] = @ + 1]
    ELSE pending

\* _scan_next_service: one of its timeouts fires
ScanNextService ==
    /\ mainloop = "running"
    /\ scan_timers > 0
    /\ IF pending_scan_services = <<>>
       THEN /\ scan_timers' = scan_timers - 1
            /\ last_op' = [op |-> "scan", arg |-> ""]
            /\ UNCHANGED <<pending_scan_services, pending_introspect>>
       ELSE /\ pending_introspect[Head(pending_scan_services)] < MaxInFlight
            /\ pending_scan_services' = Tail(pending_scan_services)
            /\ pending_introspect' =
                  CheckServiceRegistrations(pending_introspect, Head(pending_scan_services),
                                            bus_names)
            /\ scan_timers' = IF Tail(pending_scan_services) # <<>>
                              THEN scan_timers ELSE scan_timers - 1
            /\ last_op' = [op |-> "scan", arg |-> Head(pending_scan_services)]
    /\ handed' = <<>>
    /\ delivered' = NoDelivery
    /\ UNCHANGED <<parser_vars, directory_vars, device_vars, setting_vars, bus_names, now,
                   btmon_pipe, heartbeat, btmon_proc, btmon_watch, mainloop, log_vars>>

\* the emitters whose creation may raise in one _update_emitters: none, or one
FailingChoices(name) == {{}} \cup {{p} : p \in ObjectTree(name)}

SliderValues == {1, 60}
TickSteps == {599, 600}
LogSliderValues == {1, 2, 100}

Next ==
    \/ \E l \in BtmonLines : FeedLine(l)
    \/ ReadPipe
    \/ \E n \in BusNames : ServiceAppeared(n)
    \/ \E n \in BusNames : ServiceDisappeared(n)
    \/ \E n \in BusNames : \E failing \in FailingChoices(n) : IntrospectReply(n, failing)
    \/ \E n \in BusNames : IntrospectError(n)
    \/ \E v \in {0, 1} : DiscoveryChanged(v)
    \/ \E id \in DOMAIN relay_state : \E v \in {0, 1} : RelayStateChanged(id, v)
    \/ \E sl \in SliderValues : RepeatIntervalChanged(sl)
    \/ \E d \in TickSteps : Tick(d)
    \/ \E sl \in LogSliderValues : LogIntervalChanged(sl)
    \/ \E l \in BtmonLines : \E p \in emitters : \E S \in SUBSET emitters :
          FeedLineRejected(l, p, S)
    \/ ScanNextService
    \/ UpdateHeartbeat
    \/ BtmonExits
    \/ HandleHup
    \/ Cleanup

Spec == Init /\ [][Next]_vars

(***************************************************************************)
(* The parser alone: every line shape, in any order.                       *)
(***************************************************************************)
NextParser == \E l \in BtmonLines : FeedLine(l)
SpecParser == Init /\ [][NextParser]_vars

(***************************************************************************)
(* The end-to-end scenario: btmon has written one complete record.         *)
(***************************************************************************)
E2EScript == <<LineHci0, LineAddrA, LineNameTank, LineRssi, LineCompany737, LineData1027>>
InitE2E ==
    /\ current_mac = None
    /\ current_name = None
    /\ current_mfg_id = None
    /\ current_rssi = None
    /\ current_interface = None
    /\ device_names = EmptyDict
    /\ mfg_registrations = EmptyDict
    /\ mac_registrations = EmptyDict
    /\ pid_registrations = EmptyDict
    /\ pid_range_registrations = EmptyDict
    /\ emitters = {}
    /\ discovered_devices = EmptyDict
    /\ relay_state = EmptyDict
    /\ discovery_state = 1
    /\ repeat_interval = DEFAULT_REPEAT_INTERVAL
    /\ log_interval = DEFAULT_LOG_INTERVAL
    /\ now = StartTime
    /\ bus_names = {}
    /\ pending_introspect = [n \in BusNames |-> 0]
    /\ btmon_pipe = E2EScript
    /\ handed = <<>>
    /\ delivered = NoDelivery
    /\ last_op = [op |-> "init", arg |-> ""]
    /\ pending_scan_services = <<>>
    /\ scan_timers = 0
    /\ heartbeat = StartTime
    /\ btmon_proc = "running"
    /\ btmon_watch = TRUE
    /\ mainloop = "running"
    /\ missing_emitter_logged = {}
    /\ warnings = EmptyDict
NextE2E ==
    \/ ReadPipe
    \/ ServiceAppeared(SvcE2E)
    \/ ServiceDisappeared(SvcE2E)
    \/ \E failing \in FailingChoices(SvcE2E) : IntrospectReply(SvcE2E, failing)
    \/ IntrospectError(SvcE2E)
    \/ \E v \in {0, 1} : DiscoveryChanged(v)
SpecE2E == InitE2E /\ [][NextE2E]_vars

(***************************************************************************)
(* The directory: services come and go while advertisements arrive.        *)
(***************************************************************************)
DirectoryLines == {LineAddrA, LineCompany737, LineData1027, LineData1028, LineDataShort}
DirectoryNames == {SvcE2E, SvcOrion}
NextDirectory ==
    \/ \E l \in DirectoryLines : FeedLine(l)
    \/ \E n \in DirectoryNames : ServiceAppeared(n)
    \/ \E n \in DirectoryNames : ServiceDisappeared(n)
    \/ \E n \in DirectoryNames : IntrospectReply(n, {})
    \/ \E n \in DirectoryNames : IntrospectError(n)
SpecDirectory == Init /\ [][NextDirectory]_vars

(***************************************************************************)
(* The device switches and the discovery toggle.                           *)
(***************************************************************************)
DeviceLines == {LineAddrA, LineAddrB, LineCompany737, LineData1027, LineDataShort}
NextDevices ==
    \/ \E l \in DeviceLines : FeedLine(l)
    \/ ServiceAppeared(SvcE2E)
    \/ \E failing \in FailingChoices(SvcE2E) : IntrospectReply(SvcE2E, failing)
    \/ \E v \in {0, 1} : DiscoveryChanged(v)
    \/ \E id \in DOMAIN relay_state : \E v \in {0, 1} : RelayStateChanged(id, v)
SpecDevices == Init /\ [][NextDevices]_vars

(***************************************************************************)
(* The repeat filter: one device, two payloads, the clock.                 *)
(***************************************************************************)
DedupLines == {LineAddrA, LineCompany737, LineData1027, LineData1028}
NextDedup ==
    \/ \E l \in DedupLines : FeedLine(l)
    \/ ServiceAppeared(SvcE2E)
    \/ IntrospectReply(SvcE2E, {})
    \/ \E sl \in SliderValues : RepeatIntervalChanged(sl)
    \/ \E d \in TickSteps : Tick(d)
SpecDedup == Init /\ [][NextDedup]_vars

(***************************************************************************)
(* Matching as a function of the directory: the two subscribers have       *)
(* declared any set of the registration paths.                             *)
(***************************************************************************)
RegistrationPaths ==
    {PathMfgr737, PathMfgr305, PathAddrA, PathProduct, PathRangeLow, PathRangeHigh}
MatchLines ==
    {LineAddrA, LineAddrB, LineCompany737, LineCompany305, LineData1027, LineData1028,
     LineDataShort}
InitMatch ==
    /\ current_mac = None
    /\ current_name = None
    /\ current_mfg_id = None
    /\ current_rssi = None
    /\ current_interface = None
    /\ device_names = EmptyDict
    /\ \E tree \in SUBSET RegistrationPaths :
          LET dir == ParseRegistrations(EmptyDirectory, tree)
          IN /\ mfg_registrations = dir.mfg
             /\ mac_registrations = dir.mac
             /\ pid_registrations = dir.pid
             /\ pid_range_registrations = dir.range
             /\ emitters = UpdateEmitters(dir, {}, {})
    /\ discovered_devices = EmptyDict
    /\ relay_state = EmptyDict
    /\ discovery_state = 1
    /\ repeat_interval = DEFAULT_REPEAT_INTERVAL
    /\ log_interval = DEFAULT_LOG_INTERVAL
    /\ now = StartTime
    /\ bus_names = {SvcE2E, SvcOrion}
    /\ pending_introspect = [n \in BusNames |-> 0]
    /\ btmon_pipe = <<>>
    /\ handed = <<>>
    /\ delivered = NoDelivery
    /\ last_op = [op |-> "init", arg |-> ""]
    /\ pending_scan_services = <<>>
    /\ scan_timers = 0
    /\ heartbeat = StartTime
    /\ btmon_proc = "running"
    /\ btmon_watch = TRUE
    /\ mainloop = "running"
    /\ missing_emitter_logged = {}
    /\ warnings = EmptyDict
NextMatch == \E l \in MatchLines : FeedLine(l)
SpecMatch == InitMatch /\ [][NextMatch]_vars

(***************************************************************************)
(* What the inputs above say, read off the btmon output and the            *)
(* declarations themselves.                                                *)
(***************************************************************************)
\* the payload-data lines and their hex text
PayloadHex ==
    (LineData1027 :> "0102030405") @@ (LineData1028 :> "01020404") @@
    (LineDataShort :> "0a0b0c") @@ (LineDataOdd :> "012") @@ (LineHciData :> "0102030405")
\* the lines that carry an interface marker
MarkerOf ==
    (LineHci0 :> "hci0") @@ (LineHci1 :> "hci1") @@ (LineHciAddrB :> "hci1") @@
    (LineHciData :> "hci1")
\* the address-marker lines
AddressOf == (LineAddrA :> MacA) @@ (LineAddrB :> MacB) @@ (LineHciAddrB :> MacB)
\* the hex texts that decode, and their bytes
BytesOf ==
    ("0102030405" :> <<1, 2, 3, 4, 5>>) @@ ("01020404" :> <<1, 2, 4, 4>>) @@
    ("0a0b0c" :> <<10, 11, 12>>)
\* payloads and the product ID in them, around the ends of the declared ranges
MatchCases ==
    {[payload |-> <<1, 2, 3, 4, 5>>, product |-> Some(1027)],
     [payload |-> <<1, 2, 4, 4>>, product |-> Some(1028)],
     [payload |-> <<1, 2, 231, 3>>, product |-> Some(999)],
     [payload |-> <<1, 2, 232, 3, 9>>, product |-> Some(1000)],
     [payload |-> <<1, 2, 208, 7>>, product |-> Some(2000)],
     [payload |-> <<1, 2, 209, 7>>, product |-> Some(2001)],
     [payload |-> <<10, 11, 12>>, product |-> None],
     [payload |-> <<>>, product |-> None]}
ProductIn(payload) == (CHOOSE c \in MatchCases : c.payload = payload).product
\* the filter each registration path declares
DeclaredFilter ==
    (PathMfgr737 :> [kind |-> "mfgr", mfg |-> 737, lo |-> 0, hi |-> 0, mac |-> ""]) @@
    (PathMfgr305 :> [kind |-> "mfgr", mfg |-> 305, lo |-> 0, hi |-> 0, mac |-> ""]) @@
    (PathAddrA :> [kind |-> "addr", mfg |-> 0, lo |-> 0, hi |-> 0, mac |-> MacA]) @@
    (PathAddrB :> [kind |-> "addr", mfg |-> 0, lo |-> 0, hi |-> 0, mac |-> MacB]) @@
    (PathProduct :> [kind |-> "product", mfg |-> 737, lo |-> 1027, hi |-> 1027, mac |-> ""]) @@
    (PathRangeLow :> [kind |-> "range", mfg |-> 737, lo |-> 1000, hi |-> 1027, mac |-> ""]) @@
    (PathRangeHigh :> [kind |-> "range", mfg |-> 737, lo |-> 1028, hi |-> 2000, mac |-> ""])
FilterMatches(f, mac, mfg_id, product) ==
    CASE f.kind = "addr" -> f.mac = mac
      [] f.kind = "mfgr" -> f.mfg = mfg_id
      [] f.kind = "product" -> IsSet(product) /\ f.mfg = mfg_id /\ Val(product) = f.lo
      [] f.kind = "range" ->
            IsSet(product) /\ f.mfg = mfg_id /\ f.lo <= Val(product) /\ Val(product) <= f.hi
\* the registered paths whose declared filter matches
MatchingPaths(mac, mfg_id, product) ==
    {p \in ActivePaths(Directory) :
        FilterMatches(DeclaredFilter[p], mac, mfg_id, product)}
\* the last step read a line that completed a record
RecordCompleted == last_op.op = "line" /\ handed # <<>>

(***************************************************************************)
(* The parser.                                                             *)
(***************************************************************************)
\* C1: a line hands an advertisement to process_advertisement exactly when it is a
\* payload-data line read while a MAC and a manufacturer ID are pending; the one
\* call carries the pending MAC and manufacturer ID, the hex text of the line, the
\* pending RSSI (0 if none) and the pending interface ('hci0' if none); every
\* other line hands over nothing.
C1_HandedOncePerPayloadLine ==
    [][last_op'.op = "line" =>
        LET l == last_op'.arg
        IN IF l \in DOMAIN PayloadHex /\ IsSet(current_mac) /\ IsSet(current_mfg_id)
           THEN handed' =
                  <<[mac |-> Val(current_mac), mfg_id |-> Val(current_mfg_id),
                     hex_data |-> PayloadHex[l],
                     rssi |-> IF IsSet(current_rssi) THEN Val(current_rssi) ELSE 0,
                     interface |-> IF l \in DOMAIN MarkerOf THEN MarkerOf[l]
                                   ELSE IF IsSet(current_interface)
                                        THEN Val(current_interface) ELSE "hci0"]>>
           ELSE handed' = <<>>]_vars
\* a record of the second device, with everything accumulated before its payload
C1_Witness ==
    /\ last_op = [op |-> "line", arg |-> LineData1028]
    /\ handed = <<[mac |-> MacB, mfg_id |-> 305, hex_data |-> "01020404", rssi |-> -60,
                   interface |-> "hci1"]>>

\* C3 as stated: the payload-data line that completes a record clears the pending
\* MAC, manufacturer ID and RSSI and keeps the pending interface.
C3_InterfaceKept ==
    [][(last_op'.op = "line" /\ handed' # <<>>) =>
        /\ current_mac' = None
        /\ current_mfg_id' = None
        /\ current_rssi' = None
        /\ current_interface' = IF last_op'.arg \in DOMAIN MarkerOf
                                THEN Some(MarkerOf[last_op'.arg])
                                ELSE current_interface]_vars
\* C3: the payload-data line that completes a record clears the pending MAC,
\* manufacturer ID, RSSI and the pending interface too; a record completed while
\* no interface is pending, by a line without a marker, is handed over with the
\* default interface 'hci0'.
C3_InterfaceCleared ==
    [][(last_op'.op = "line" /\ handed' # <<>>) =>
        /\ current_mac' = None
        /\ current_mfg_id' = None
        /\ current_rssi' = None
        /\ current_interface' = None
        /\ (current_interface = None /\ last_op'.arg \notin DOMAIN MarkerOf)
              => handed'[1].interface = "hci0"]_vars
\* a record of interface hci1 has just been completed and no interface is pending
C3_Witness ==
    /\ RecordCompleted
    /\ last_op.arg \notin DOMAIN MarkerOf
    /\ handed[1].interface = "hci1"
    /\ current_interface = None

\* C4: an address-marker line sets the pending MAC to its address, unsets the
\* pending name, manufacturer ID and RSSI, and leaves the pending interface as it
\* was, or as the interface marker on the same line sets it.
C4_AddressLine ==
    [][(last_op'.op = "line" /\ last_op'.arg \in DOMAIN AddressOf) =>
        /\ current_mac' = Some(AddressOf[last_op'.arg])
        /\ current_name' = None
        /\ current_mfg_id' = None
        /\ current_rssi' = None
        /\ current_interface' = IF last_op'.arg \in DOMAIN MarkerOf
                                THEN Some(MarkerOf[last_op'.arg])
                                ELSE current_interface]_vars
\* an address line read after the name of another device, the interface still pending
C4_Witness ==
    /\ last_op = [op |-> "line", arg |-> LineAddrB]
    /\ current_mac = Some(MacB)
    /\ current_name = None
    /\ current_mfg_id = None
    /\ current_rssi = None
    /\ current_interface = Some("hci0")
    /\ MacA \in DOMAIN device_names

(***************************************************************************)
(* End to end.                                                             *)
(***************************************************************************)
\* C2: when the six lines of the record (interface hci0, address
\* AA:BB:CC:DD:EE:FF, name Tank1, RSSI -60, company 737, payload 0102030405) have
\* been read in order and, at the payload line, discovery is on and the
\* manufacturer-only registration for 737 is present with its emitter, exactly one
\* Advertisement is sent, on that path, with these fields.
C2_EndToEnd ==
    (/\ btmon_pipe = <<>>
     /\ last_op = [op |-> "line", arg |-> LineData1027]
     /\ discovery_state = 1
     /\ 737 \in DOMAIN mfg_registrations
     /\ PathMfgr737 \in mfg_registrations[737]
     /\ PathMfgr737 \in emitters)
    => delivered = [event |-> Some([mac |-> "AA:BB:CC:DD:EE:FF", manufacturer_id |-> 737,
                                    data |-> <<1, 2, 3, 4, 5>>, rssi |-> -60,
                                    interface |-> "hci0", name |-> "Tank1"]),
                    paths |-> (PathMfgr737 :> 1)]
\* the payload line of the record has been read and the event is out
C2_Witness ==
    /\ btmon_pipe = <<>>
    /\ last_op = [op |-> "line", arg |-> LineData1027]
    /\ IsSet(delivered.event)
    /\ DOMAIN delivered.paths = {PathMfgr737}

(***************************************************************************)
(* The directory.                                                          *)
(***************************************************************************)
\* C5: for every MAC, manufacturer ID and payload, _has_registration_for_advertisement
\* on the product ID extracted from the payload is true iff some registered path
\* declares a filter that matches: the MAC, or the manufacturer alone, or, when the
\* payload has 4 bytes or more, the manufacturer with that product ID or with a
\* range that contains it, both ends included.
C5_MatchPredicate ==
    \A mac \in {MacA, MacB} : \A mfg_id \in {737, 305, 76} : \A c \in MatchCases :
        HasRegistrationForAdvertisement(Directory, mac, mfg_id, ExtractProductId(c.payload))
        <=> MatchingPaths(mac, mfg_id, c.product) # {}
\* only the two ranges are registered: each matches at its ends, nothing else does
C5_Witness ==
    /\ ActivePaths(Directory) = {PathRangeLow, PathRangeHigh}
    /\ HasRegistrationForAdvertisement(Directory, MacA, 737, ExtractProductId(<<1, 2, 3, 4, 5>>))
    /\ HasRegistrationForAdvertisement(Directory, MacA, 737, ExtractProductId(<<1, 2, 232, 3, 9>>))
    /\ ~HasRegistrationForAdvertisement(Directory, MacA, 737, ExtractProductId(<<1, 2, 231, 3>>))
    /\ ~HasRegistrationForAdvertisement(Directory, MacA, 737, ExtractProductId(<<10, 11, 12>>))
    /\ RecordCompleted

\* C6: an event that is routed is sent once on every path that has an emitter and
\* whose registration matches it, whatever the kind of the registration
\* (manufacturer, product, range, MAC) and whichever subscriber declared it, and
\* on no other path.
C6_FanOut ==
    (RecordCompleted /\ IsSet(delivered.event)) =>
        LET ev == Val(delivered.event)
        IN DOMAIN delivered.paths =
              emitters \cap MatchingPaths(ev.mac, ev.manufacturer_id, ProductIn(ev.data))
\* one event on a manufacturer, a product, a range and a MAC path of two subscribers
C6_Witness ==
    /\ RecordCompleted
    /\ IsSet(delivered.event)
    /\ DOMAIN delivered.paths = {PathMfgr737, PathProduct, PathRangeLow, PathAddrA}

\* C7: after NameOwnerChanged(S, old owner, '') is handled, no path that S exports
\* is left in the four registration indexes or among the emitters.
C7_DisappearedLeavesNothing ==
    last_op.op = "disappeared" =>
        \A p \in VisitedPaths(ObjectTree(last_op.arg)) :
            p \notin ActivePaths(Directory) /\ p \notin emitters

(***************************************************************************)
(* The dedup cache.                                                        *)
(***************************************************************************)
\* the device of a record handed over, whether its payload decodes and some
\* registered path matches it, and the paths with an emitter that match it
IdOf(call) == RelayId(call.mac)
Matches(call) ==
    /\ call.hex_data \in DOMAIN BytesOf
    /\ MatchingPaths(call.mac, call.mfg_id, ProductIn(BytesOf[call.hex_data])) # {}
Channels(call) ==
    emitters \cap MatchingPaths(call.mac, call.mfg_id, ProductIn(BytesOf[call.hex_data]))
\* the signals `sent` are the event of the record on its matching channels, and the
\* cache `devices` holds its payload with the time t for its device
Routed(call, sent, devices, t) ==
    /\ IsSet(sent.event)
    /\ Val(sent.event).data = BytesOf[call.hex_data]
    /\ DOMAIN sent.paths = Channels(call)
    /\ IdOf(call) \in DOMAIN devices
    /\ devices[IdOf(call)].previous = Some(BytesOf[call.hex_data])
    /\ devices[IdOf(call)].timestamp = t

\* C8 as stated: whatever the discovery toggle is, a matching event of a device
\* without cache entry is routed and a cache entry with its payload and the
\* current time is created.
C8_FirstObservationAlwaysRouted ==
    [][(/\ last_op'.op = "line"
        /\ handed' # <<>>
        /\ Matches(handed'[1])
        /\ IdOf(handed'[1]) \notin DOMAIN discovered_devices)
       => Routed(handed'[1], delivered', discovered_devices', now)]_vars
\* C8: a matching event of a device without cache entry is routed and a cache
\* entry with its payload and the current time is created when the discovery
\* switch is on; when it is off the event goes nowhere and no entry is created.
C8_FirstObservationRoutedIfDiscovering ==
    [][(/\ last_op'.op = "line"
        /\ handed' # <<>>
        /\ Matches(handed'[1])
        /\ IdOf(handed'[1]) \notin DOMAIN discovered_devices)
       => IF discovery_state = 1
          THEN Routed(handed'[1], delivered', discovered_devices', now)
          ELSE delivered' = NoDelivery /\ discovered_devices' = discovered_devices]_vars
\* the first event of a device since the cache was cleared: it went out although the
\* entry it created is disabled, so no cache hit routed it
C8_Witness ==
    /\ RecordCompleted
    /\ Matches(handed[1])
    /\ Routed(handed[1], delivered, discovered_devices, now)
    /\ delivered.paths # EmptyDict
    /\ ~discovered_devices[IdOf(handed[1])].route

\* C9: with a repeat interval above 0, a matching event of a device whose cache
\* entry is enabled is routed, and the entry updated, iff its payload differs from
\* the entry's last payload or the interval has passed since the entry's last
\* route time; otherwise nothing is sent and the entry stays. With the interval
\* 600 the same payload is suppressed 599 s after it was routed and routed 600 s
\* after.
C9_RepeatFilter ==
    [][(/\ last_op'.op = "line"
        /\ handed' # <<>>
        /\ Matches(handed'[1])
        /\ IdOf(handed'[1]) \in DOMAIN discovered_devices
        /\ discovered_devices[IdOf(handed'[1])].route
        /\ repeat_interval > 0)
       => LET entry == discovered_devices[IdOf(handed'[1])]
              same == entry.previous = Some(BytesOf[handed'[1].hex_data])
              elapsed == now - entry.timestamp
          IN /\ IF ~same \/ elapsed >= repeat_interval
                THEN Routed(handed'[1], delivered', discovered_devices', now)
                ELSE delivered' = NoDelivery /\ discovered_devices' = discovered_devices
             /\ (same /\ repeat_interval = 600 /\ elapsed = 599) => delivered' = NoDelivery
             /\ (same /\ repeat_interval = 600 /\ elapsed = 600) => IsSet(delivered'.event)]_vars
\* the same payload again, 599 s after it was routed: nothing sent
C9_Witness ==
    /\ RecordCompleted
    /\ Matches(handed[1])
    /\ Channels(handed[1]) # {}
    /\ repeat_interval = 600
    /\ IdOf(handed[1]) \in DOMAIN discovered_devices
    /\ discovered_devices[IdOf(handed[1])].route
    /\ discovered_devices[IdOf(handed[1])].previous = Some(BytesOf[handed[1].hex_data])
    /\ now - discovered_devices[IdOf(handed[1])].timestamp = 599
    /\ delivered = NoDelivery

\* C10: an event of a device whose cache entry is disabled is sent on no path and
\* leaves the entry as it was.
C10_DisabledNotRouted ==
    [][(/\ last_op'.op = "line"
        /\ handed' # <<>>
        /\ IdOf(handed'[1]) \in DOMAIN discovered_devices
        /\ ~discovered_devices[IdOf(handed'[1])].route)
       => /\ delivered' = NoDelivery
          /\ discovered_devices'[IdOf(handed'[1])] = discovered_devices[IdOf(handed'[1])]]_vars
\* a matching event with a new payload for a disabled device, discovery on, an
\* emitter waiting: nothing sent, the entry keeps the older payload
C10_Witness ==
    /\ RecordCompleted
    /\ Matches(handed[1])
    /\ Channels(handed[1]) # {}
    /\ discovery_state = 1
    /\ IdOf(handed[1]) \in DOMAIN discovered_devices
    /\ ~discovered_devices[IdOf(handed[1])].route
    /\ discovered_devices[IdOf(handed[1])].previous # Some(BytesOf[handed[1].hex_data])
    /\ delivered = NoDelivery

(***************************************************************************)
(* The repeat filter switched off: one device, one payload, the switches.  *)
(***************************************************************************)
RepeatOffLines == {LineAddrA, LineCompany737, LineData1027}
NextRepeatOff ==
    \/ \E l \in RepeatOffLines : FeedLine(l)
    \/ ServiceAppeared(SvcE2E)
    \/ IntrospectReply(SvcE2E, {})
    \/ \E v \in {0, 1} : DiscoveryChanged(v)
    \/ \E id \in DOMAIN relay_state : \E v \in {0, 1} : RelayStateChanged(id, v)
    \/ \E sl \in SliderValues : RepeatIntervalChanged(sl)
    \/ Tick(DEFAULT_REPEAT_INTERVAL)
SpecRepeatOff == Init /\ [][NextRepeatOff]_vars

\* the device of a record is disabled: its switch is off or its cache entry says so
Disabled(call) ==
    \/ IdOf(call) \in DOMAIN relay_state /\ relay_state[IdOf(call)] = 0
    \/ IdOf(call) \in DOMAIN discovered_devices /\ ~discovered_devices[IdOf(call)].route

\* C11 as stated: with the repeat interval 0, every matching event of a device
\* that is not disabled is routed.
C11_ZeroRoutesAll ==
    [][(/\ last_op'.op = "line"
        /\ handed' # <<>>
        /\ Matches(handed'[1])
        /\ repeat_interval = 0
        /\ ~Disabled(handed'[1]))
       => Routed(handed'[1], delivered', discovered_devices', now)]_vars
\* C11: with the repeat interval 0, every matching event of a device that has an
\* enabled cache entry is routed, the same payload at the same time included; an
\* event of a device without cache entry is routed if the discovery switch is on
\* and goes nowhere if it is off.
C11_ZeroRoutesCached ==
    [][(/\ last_op'.op = "line"
        /\ handed' # <<>>
        /\ Matches(handed'[1])
        /\ repeat_interval = 0)
       => IF IdOf(handed'[1]) \in DOMAIN discovered_devices
          THEN discovered_devices[IdOf(handed'[1])].route
                  => Routed(handed'[1], delivered', discovered_devices', now)
          ELSE IF discovery_state = 1
          THEN Routed(handed'[1], delivered', discovered_devices', now)
          ELSE delivered' = NoDelivery /\ discovered_devices' = discovered_devices]_vars
\* the one payload routed again for a device whose entry is older than this event
C11_Witness ==
    /\ RecordCompleted
    /\ Matches(handed[1])
    /\ repeat_interval = 0
    /\ Routed(handed[1], delivered, discovered_devices, now)
    /\ delivered.paths # EmptyDict
    /\ discovered_devices[IdOf(handed[1])].route
    /\ discovered_devices[IdOf(handed[1])].last_log_time < now

(***************************************************************************)
(* The directory and the dedup cache.                                      *)
(***************************************************************************)
\* C12: a step that changes the content of the four registration indexes, by an
\* introspection reply or by a disappearance, leaves the device cache empty.
C12_DirectoryChangeClearsCache ==
    [][Directory' # Directory => discovered_devices' = EmptyDict]_vars
\* the reply of a second subscriber, after a device had been discovered
C12_Witness ==
    /\ last_op = [op |-> "reply", arg |-> SvcOrion]
    /\ PathMfgr737 \in ActivePaths(Directory)
    /\ PathAddrA \in ActivePaths(Directory)
    /\ RelayId(MacA) \in DOMAIN relay_state
    /\ discovered_devices = EmptyDict

(***************************************************************************)
(* A registration added late: the second device is routed through the      *)
(* registration of one subscriber, the first matches nothing until another *)
(* subscriber declares its filters.                                        *)
(***************************************************************************)
AddedLines == {LineAddrA, LineAddrB, LineCompany737, LineData1027}
AddedNames == {SvcTank, SvcOrion}
NextAdded ==
    \/ \E l \in AddedLines : FeedLine(l)
    \/ \E n \in AddedNames : ServiceAppeared(n)
    \/ \E n \in AddedNames : IntrospectReply(n, {})
    \/ \E v \in {0, 1} : DiscoveryChanged(v)
SpecAdded == Init /\ [][NextAdded]_vars

\* C13 as stated: the event of the first device that is processed right after the
\* reply that added its registration is routed on the new path.
C13_FirstAfterAdditionRouted ==
    [][(/\ last_op = [op |-> "reply", arg |-> SvcOrion]
        /\ last_op'.op = "line"
        /\ handed' # <<>>
        /\ handed'[1].mac = MacA)
       => /\ Routed(handed'[1], delivered', discovered_devices', now)
          /\ PathAddrA \in DOMAIN delivered'.paths]_vars
\* C13: once the registration of the first device is added, an event of that
\* device processed while none has been routed yet is routed on the new path if
\* the discovery switch is on, whatever was processed before the addition; it goes
\* nowhere if the switch is off.
C13_AfterAdditionRoutedIfDiscovering ==
    [][(/\ last_op'.op = "line"
        /\ handed' # <<>>
        /\ handed'[1].mac = MacA
        /\ PathAddrA \in ActivePaths(Directory)
        /\ IdOf(handed'[1]) \notin DOMAIN relay_state)
       => IF discovery_state = 1
          THEN /\ Routed(handed'[1], delivered', discovered_devices', now)
               /\ PathAddrA \in DOMAIN delivered'.paths
          ELSE delivered' = NoDelivery /\ discovered_devices' = discovered_devices]_vars
\* the first device routed on its new path; the second had been routed before and
\* its cache entry went with the addition
C13_Witness ==
    /\ RecordCompleted
    /\ handed[1].mac = MacA
    /\ PathAddrA \in DOMAIN delivered.paths
    /\ RelayId(MacB) \in DOMAIN relay_state
    /\ DOMAIN discovered_devices = {RelayId(MacA)}

(***************************************************************************)
(* The initial scan: run() has listed the names on the bus and queued the  *)
(* candidates; services come and go while the queue is worked off.         *)
(***************************************************************************)
ScanNames == {SvcE2E, SvcOrion, SvcSystem}
InitScan ==
    /\ current_mac = None
    /\ current_name = None
    /\ current_mfg_id = None
    /\ current_rssi = None
    /\ current_interface = None
    /\ device_names = EmptyDict
    /\ mfg_registrations = EmptyDict
    /\ mac_registrations = EmptyDict
    /\ pid_registrations = EmptyDict
    /\ pid_range_registrations = EmptyDict
    /\ emitters = {}
    /\ discovered_devices = EmptyDict
    /\ relay_state = EmptyDict
    /\ discovery_state = 1
    /\ repeat_interval = DEFAULT_REPEAT_INTERVAL
    /\ log_interval = DEFAULT_LOG_INTERVAL
    /\ now = StartTime
    /\ bus_names \in {S \cup {SvcBluez} : S \in {{SvcE2E, SvcOrion}, ScanNames}}
    /\ pending_introspect = [n \in BusNames |-> 0]
    /\ btmon_pipe = <<>>
    /\ handed = <<>>
    /\ delivered = NoDelivery
    /\ last_op = [op |-> "init", arg |-> ""]
    /\ pending_scan_services \in Orderings(ScanCandidates(bus_names \cup {OwnName, UniqueName}))
    /\ scan_timers = IF pending_scan_services # <<>> THEN 1 ELSE 0
    /\ heartbeat = StartTime
    /\ btmon_proc = "running"
    /\ btmon_watch = TRUE
    /\ mainloop = "running"
    /\ missing_emitter_logged = {}
    /\ warnings = EmptyDict
RestartNames == {SvcE2E, SvcSystem}
NextScan ==
    \/ ScanNextService
    \/ \E n \in RestartNames : ServiceAppeared(n)
    \/ \E n \in RestartNames : ServiceDisappeared(n)
    \/ \E n \in ScanNames : IntrospectReply(n, {})
    \/ \E n \in RestartNames : IntrospectError(n)
SpecScan == InitScan /\ [][NextScan]_vars

\* the Introspect calls in flight
InFlight(pending) == pending[SvcE2E] + pending[SvcOrion] + pending[SvcSystem]

\* C14: every run of _scan_next_service takes exactly one candidate off the queue,
\* the first one, and issues at most one Introspect call, for that candidate.
C14_OneCandidatePerTick ==
    [][last_op'.op = "scan" =>
        /\ pending_scan_services # <<>>
        /\ pending_scan_services' = Tail(pending_scan_services)
        /\ last_op'.arg = Head(pending_scan_services)
        /\ InFlight(pending_introspect') <= InFlight(pending_introspect) + 1
        /\ \A n \in BusNames \ {Head(pending_scan_services)} :
              pending_introspect'[n] = pending_introspect[n]]_vars
\* a tick has probed the first of three candidates and left two in the queue
C14_Witness ==
    /\ last_op.op = "scan"
    /\ Len(pending_scan_services) = 2
    /\ pending_introspect[last_op.arg] = 1
    /\ InFlight(pending_introspect) = 1
    /\ scan_timers = 1

\* the number of index keys under which path p is registered
KeysHolding(dir, p) ==
    Cardinality({k \in DOMAIN dir.mfg : p \in dir.mfg[k]})
    + Cardinality({k \in DOMAIN dir.mac : p \in dir.mac[k]})
    + Cardinality({k \in DOMAIN dir.pid : p \in dir.pid[k]})
    + Cardinality({k \in DOMAIN dir.range : p \in dir.range[k]})

\* C15: a probe reply of a subscriber whose declarations are all registered already
\* changes neither the directory nor the channels, and each of its declarations is
\* registered under exactly one key with exactly one channel.
C15_SecondUpsertChangesNothing ==
    [][(/\ last_op'.op = "reply"
        /\ ObjectTree(last_op'.arg) # {}
        /\ ObjectTree(last_op'.arg) \subseteq ActivePaths(Directory) \cap emitters)
       => /\ mfg_registrations' = mfg_registrations
          /\ mac_registrations' = mac_registrations
          /\ pid_registrations' = pid_registrations
          /\ pid_range_registrations' = pid_range_registrations
          /\ emitters' = emitters
          /\ \A p \in ObjectTree(last_op'.arg) : KeysHolding(Directory, p) = 1]_vars
\* the e2e service was probed, a device was routed to it, and a second reply of the
\* same service arrived: only its declarations are registered
C15_Witness ==
    /\ last_op = [op |-> "reply", arg |-> SvcE2E]
    /\ ActivePaths(Directory) = ObjectTree(SvcE2E)
    /\ emitters = ObjectTree(SvcE2E)
    /\ RelayId(MacA) \in DOMAIN relay_state
    /\ discovered_devices = EmptyDict
    /\ \A p \in ObjectTree(SvcE2E) : KeysHolding(Directory, p) = 1

(***************************************************************************)
(* Channels that could not be created: AdvertisementEmitter raises for one *)
(* path of a reply and the path stays registered without a channel.        *)
(***************************************************************************)
MissingLines == {LineAddrA, LineCompany737, LineData1027, LineData1028}
NextMissing ==
    \/ \E l \in MissingLines : FeedLine(l)
    \/ ServiceAppeared(SvcOrion)
    \/ ServiceDisappeared(SvcOrion)
    \/ \E failing \in FailingChoices(SvcOrion) : IntrospectReply(SvcOrion, failing)
SpecMissing == Init /\ [][NextMissing]_vars

\* the registered paths the delivered event matches
MatchedByDelivered ==
    LET ev == Val(delivered.event)
    IN MatchingPaths(ev.mac, ev.manufacturer_id, ProductIn(ev.data))

\* C16: a dispatched event is sent once on every matched path that has a channel,
\* whether or not other matched paths lack one, and emitted_count is the number of
\* matched paths that have a channel.
C16_DeliveredOnExisting ==
    (RecordCompleted /\ IsSet(delivered.event)) =>
        /\ DOMAIN delivered.paths = MatchedByDelivered \cap emitters
        /\ \A p \in DOMAIN delivered.paths : delivered.paths[p] = 1
        /\ EmittedCount(delivered) = Cardinality(MatchedByDelivered \cap emitters)
\* three paths match, the product path has no channel, the other two got the event
C16_Witness ==
    /\ RecordCompleted
    /\ IsSet(delivered.event)
    /\ MatchedByDelivered = {PathAddrA, PathProduct, PathRangeLow}
    /\ PathProduct \notin emitters
    /\ DOMAIN delivered.paths = {PathAddrA, PathRangeLow}
    /\ EmittedCount(delivered) = 2

\* C17: whenever an event is dispatched, every matched path without a channel, of
\* whichever filter kind, has exactly one warning logged about it, and no path ever
\* has more than one.
C17_MissingWarnedOnce ==
    /\ \A p \in DOMAIN warnings : warnings[p] <= 1
    /\ (RecordCompleted /\ IsSet(delivered.event)) =>
          \A p \in MatchedByDelivered \ emitters : Get(warnings, p, 0) = 1
\* what the code does hold to: only MAC paths are ever warned about, once each
C17_OnlyAddrWarned ==
    /\ \A p \in DOMAIN warnings : warnings[p] = 1 /\ DeclaredFilter[p].kind = "addr"
    /\ (RecordCompleted /\ IsSet(delivered.event)) =>
          \A p \in MatchedByDelivered \ emitters :
              Get(warnings, p, 0) = IF DeclaredFilter[p].kind = "addr" THEN 1 ELSE 0

(***************************************************************************)
(* The end of btmon.  GLib dispatches a ready source, so the hang-up is    *)
(* handled once it is pending; the signals that run cleanup come from      *)
(* outside and nothing obliges them to arrive.                             *)
(***************************************************************************)
HangupLines == {LineAddrA, LineCompany737, LineData1027}
NextHangup ==
    \/ \E l \in HangupLines : FeedLine(l)
    \/ mainloop = "running" /\ ServiceAppeared(SvcE2E)
    \/ mainloop = "running" /\ IntrospectReply(SvcE2E, {})
    \/ mainloop = "running" /\ \E value \in {0, 1} : DiscoveryChanged(value)
    \/ BtmonExits
    \/ HandleHup
    \/ Cleanup
SpecHangup == Init /\ [][NextHangup]_vars /\ WF_vars(HandleHup)

\* C18: once btmon has ended on its own, the router process eventually exits.
C18_HangupLeadsToExit == (btmon_proc = "ended") ~> (mainloop = "exited")
\* the part that holds: no event is delivered once the hang-up was handled
C18_NoEventsAfterHangup == ~btmon_watch => (handed = <<>> /\ ~IsSet(delivered.event))
\* the hang-up was handled and the main loop still runs, without an event source
C18_RunningWithoutSource ==
    /\ last_op.op = "hup"
    /\ btmon_proc = "ended"
    /\ ~btmon_watch
    /\ mainloop = "running"

(***************************************************************************)
(* The router at work while the heartbeat timer fires every 600 seconds.   *)
(***************************************************************************)
HeartbeatLines == {LineAddrA, LineCompany737, LineData1027}
NextHeartbeat ==
    \/ \E l \in HeartbeatLines : FeedLine(l)
    \/ ServiceAppeared(SvcE2E)
    \/ IntrospectReply(SvcE2E, {})
    \/ UpdateHeartbeat
SpecHeartbeat == Init /\ [][NextHeartbeat]_vars

\* C19: while the router runs with its heartbeat timer firing, GetStatus returns
\* 'running'.
C19_RunningWhileAlive == mainloop = "running" => GetStatus(now, heartbeat) = "running"
\* the status is 'running' only during the first STALE_AFTER seconds after construction
C19_RunningUntilStale ==
    GetStatus(now, heartbeat) = "running" <=> now - StartTime < STALE_AFTER
\* the timer fired for the third time and the status turned 'stale'
C19_StaleAfterThreeTicks ==
    /\ last_op.op = "heartbeat"
    /\ now = StartTime + 3 * HEARTBEAT_PERIOD
    /\ heartbeat = StartTime
    /\ GetStatus(now, heartbeat) = "stale"

(***************************************************************************)
(* The log throttle: one device, two payloads, the clock and the log       *)
(* interval slider.                                                        *)
(***************************************************************************)
ThrottleLines == {LineAddrA, LineCompany737, LineData1027, LineData1028}
NextThrottle ==
    \/ \E l \in ThrottleLines : FeedLine(l)
    \/ ServiceAppeared(SvcE2E)
    \/ IntrospectReply(SvcE2E, {})
    \/ \E sl \in LogSliderValues : LogIntervalChanged(sl)
    \/ Tick(DEFAULT_REPEAT_INTERVAL)
SpecThrottle == Init /\ [][NextThrottle]_vars

\* what reading line l does to the cache, the switches and the bus when the cache is
\* `devices` and the log interval `log_ivl`, everything else as in the current state
LineOutcome(devices, log_ivl, l) ==
    LET r == ParseBtmonLine(ParserState, device_names, Searched[l])
    IN IF r.call = <<>>
       THEN [devices |-> devices, relays |-> relay_state, delivered |-> NoDelivery]
       ELSE ProcessAdvertisement(Directory, emitters, r.names, devices, relay_state,
                                 discovery_state, repeat_interval, log_ivl, now,
                                 r.call[1].mac, r.call[1].mfg_id, r.call[1].hex_data,
                                 r.call[1].rssi, r.call[1].interface)
\* a cache without its log times
WithoutLogTime(devices) ==
    [id \in DOMAIN devices |-> [devices[id] EXCEPT !.last_log_time = 0]]
\* the caches that differ from `devices` in log times only
LogTimeVariants(devices) ==
    {d \in [DOMAIN devices -> {devices[id] : id \in DOMAIN devices}
                              \cup {[devices[id] EXCEPT !.last_log_time = t] :
                                       id \in DOMAIN devices, t \in {0, StartTime, now}}] :
        WithoutLogTime(d) = WithoutLogTime(devices)}

\* C20: in every reachable state, reading any line under any other log interval and
\* any other log times in the cache delivers the same event on the same channels and
\* leaves the same payloads, route times and switches.  Every other handler neither
\* reads the log interval nor a log time, so two runs that differ in the log interval
\* only stay equal in all but these step by step.
C20_LogIntervalNoInterference ==
    \A l \in ThrottleLines : \A sl \in LogSliderValues :
        \A d \in LogTimeVariants(discovered_devices) :
            LET mine == LineOutcome(discovered_devices, log_interval, l)
                other == LineOutcome(d, LogSliderToInterval(sl), l)
            IN /\ mine.delivered = other.delivered
               /\ mine.relays = other.relays
               /\ WithoutLogTime(mine.devices) = WithoutLogTime(other.devices)
\* an event was delivered under a changed log interval and not logged at INFO level:
\* the log time of the device is older than its route time
C20_Witness ==
    /\ RecordCompleted
    /\ IsSet(delivered.event)
    /\ log_interval = LogSliderToInterval(100)
    /\ RelayId(MacA) \in DOMAIN discovered_devices
    /\ discovered_devices[RelayId(MacA)].last_log_time > 0
    /\ discovered_devices[RelayId(MacA)].last_log_time
          < discovered_devices[RelayId(MacA)].timestamp

(***************************************************************************)
(* Declarations as services write them: spellings of a MAC, parameters     *)
(* that do not parse, and the layout of the module docstring.              *)
(***************************************************************************)
DeclareNames == {SvcSpell, SvcBad, SvcDoc}
DeclareLines == {LineAddrA, LineCompany737, LineData1027}
NextDeclare ==
    \/ \E l \in DeclareLines : FeedLine(l)
    \/ \E n \in DeclareNames : ServiceAppeared(n)
    \/ \E n \in DeclareNames : IntrospectReply(n, {})
SpecDeclare == Init /\ [][NextDeclare]_vars

\* six pairs of uppercase hex digits with colons between
IsCanonicalMac(k) ==
    /\ Len(k) = 17
    /\ \A i \in 1..17 : IF i % 3 = 0 THEN CharAt(k, i) = ":" ELSE CharAt(k, i) \in UpperHexChars

\* C21: every key of mac_registrations is a canonical MAC, and the spellings of one
\* MAC are registered under the one key that events of the device carry.
C21_CanonicalKeys ==
    /\ \A k \in DOMAIN mac_registrations : IsCanonicalMac(k)
    /\ \A p \in {PathAddrLower, PathAddrBare, PathAddrMixed} :
          p \in ActivePaths(Directory) => p \in Get(mac_registrations, MacA, {})
\* the half that holds: the three spellings share the key of the events
C21_SpellingsOneKey ==
    \A p \in {PathAddrLower, PathAddrBare, PathAddrMixed} :
        p \in ActivePaths(Directory) =>
            /\ p \in Get(mac_registrations, MacA, {})
            /\ KeysHolding(Directory, p) = 1
            /\ (RecordCompleted /\ IsSet(delivered.event) /\ p \in emitters)
                  => (Val(delivered.event).mac = MacA /\ p \in DOMAIN delivered.paths)
\* an event of the device was delivered on the paths of all three spellings
C21_SpellingsDelivered ==
    /\ RecordCompleted
    /\ IsSet(delivered.event)
    /\ {PathAddrLower, PathAddrBare, PathAddrMixed} \subseteq DOMAIN delivered.paths

\* C22: no declaration whose parameters do not parse is in an index or has a channel.
C22_MalformedRejected ==
    \A p \in ObjectTree(SvcBad) : p \notin ActivePaths(Directory) /\ p \notin emitters
\* the half that holds: the three numeric kinds reject what does not parse
C22_NumericKindsRejected ==
    /\ \A p \in {PathBadMfgr, PathBadProduct, PathBadRange} :
          p \notin ActivePaths(Directory) /\ p \notin emitters
    /\ \A k \in DOMAIN mac_registrations :
          PathBadAddr \in mac_registrations[k] => (k = "ZZ11" /\ PathBadAddr \in emitters)
\* the reply of the service with the malformed declarations was handled and its addr
\* declaration is registered with a channel
C22_BadAddrRegistered ==
    /\ last_op = [op |-> "reply", arg |-> SvcBad]
    /\ PathBadAddr \in Get(mac_registrations, "ZZ11", {})
    /\ PathBadAddr \in emitters

\* C23: once the reply of the service laid out as in the docstring is handled, its pid
\* path is a product registration with a channel, its pid_range path a range
\* registration with a channel, and no manufacturer-only registration exists for
\* their manufacturer IDs.
C23_DocstringLayout ==
    last_op = [op |-> "reply", arg |-> SvcDoc] =>
        /\ PathDocPid \in Get(pid_registrations, <<737, 1027>>, {})
        /\ PathDocRange \in Get(pid_range_registrations, <<305, 1000, 2000>>, {})
        /\ {PathDocPid, PathDocRange} \subseteq emitters
        /\ 737 \notin DOMAIN mfg_registrations
        /\ 305 \notin DOMAIN mfg_registrations
\* what the code does with that layout: the node above pid is taken for a
\* manufacturer-only declaration and the pid and pid_range objects for nothing
C23_DocstringLayoutAsCoded ==
    last_op = [op |-> "reply", arg |-> SvcDoc] =>
        /\ pid_registrations = EmptyDict
        /\ pid_range_registrations = EmptyDict
        /\ PathDocPid \notin emitters /\ PathDocRange \notin emitters
        /\ Get(mfg_registrations, 737, {}) = {"/ble_advertisements/doc/mfgr/737"}
        /\ Get(mfg_registrations, 305, {}) = {"/ble_advertisements/doc/mfgr/305"}
        /\ {"/ble_advertisements/doc/mfgr/737", "/ble_advertisements/doc/mfgr/305"}
              \subseteq emitters

(***************************************************************************)
(* Payload lines that do not decode, among lines that do.                  *)
(***************************************************************************)
BadHexLines == {LineAddrA, LineRssi, LineCompany737, LineData1027, LineData1028, LineDataOdd}
NextBadHex ==
    \/ \E l \in BadHexLines : FeedLine(l)
    \/ ServiceAppeared(SvcE2E)
    \/ IntrospectReply(SvcE2E, {})
    \/ Tick(DEFAULT_REPEAT_INTERVAL)
SpecBadHex == Init /\ [][NextBadHex]_vars

\* C24: a step that hands on a payload with an odd number of hex digits, which
\* bytes.fromhex refuses, delivers nothing and leaves the directory, the channels,
\* the cache and the switches as they were.
C24_UndecodableChangesNothing ==
    [][(last_op'.op = "line" /\ handed' # <<>> /\ Len(handed'[1].hex_data) % 2 = 1)
       => /\ delivered' = NoDelivery
          /\ discovered_devices' = discovered_devices
          /\ relay_state' = relay_state
          /\ mfg_registrations' = mfg_registrations
          /\ mac_registrations' = mac_registrations
          /\ pid_registrations' = pid_registrations
          /\ pid_range_registrations' = pid_range_registrations
          /\ emitters' = emitters]_vars
\* an undecodable payload of a device that is registered for and already in the cache
C24_Witness ==
    /\ last_op = [op |-> "line", arg |-> LineDataOdd]
    /\ handed # <<>>
    /\ handed[1].mac = MacA
    /\ handed[1].hex_data = "012"
    /\ delivered = NoDelivery
    /\ PathMfgr737 \in emitters
    /\ RelayId(MacA) \in DOMAIN discovered_devices

(***************************************************************************)
(* The initial scan under fairness.  The timeout of _scan_next_service is  *)
(* a GLib source that fires whenever it is scheduled, and every Introspect *)
(* call ends in its reply or, after its timeout at the latest, its error   *)
(* handler.                                                                *)
(***************************************************************************)
\* the Introspect call to service n ends: _on_introspect_reply or _on_introspect_error
\* runs for it
ProbeEnds(n) ==
    pending_introspect[n] > 0 /\ pending_introspect' = [pending_introspect EXCEPT ![n] = @ - 1]
FairSpecScan ==
    /\ InitScan
    /\ [][NextScan]_vars
    /\ SF_vars(ScanNextService)
    /\ \A n \in ScanNames : WF_pending_introspect(ProbeEnds(n))

\* C25: the queue changes only by a tick taking its first candidate and probing it;
\* exactly one tick is scheduled while candidates are left; and the scan ends with
\* the queue empty and no tick scheduled, for good.
C25_ScanTerminates ==
    /\ [][pending_scan_services' # pending_scan_services =>
             /\ last_op'.op = "scan"
             /\ pending_scan_services # <<>>
             /\ pending_scan_services' = Tail(pending_scan_services)
             /\ last_op'.arg = Head(pending_scan_services)]_vars
    /\ [](scan_timers = IF pending_scan_services # <<>> THEN 1 ELSE 0)
    /\ <>[](pending_scan_services = <<>> /\ scan_timers = 0)
\* the scan is over and a probe it had issued has failed since: nothing is queued
C25_Witness ==
    /\ pending_scan_services = <<>>
    /\ scan_timers = 0
    /\ last_op = [op |-> "error", arg |-> SvcE2E]
    /\ InFlight(pending_introspect) = 0

(***************************************************************************)
(* Probes that fail, during the initial scan and after it, while events    *)
(* are routed.                                                             *)
(***************************************************************************)
RetryLines == {LineAddrA, LineCompany737, LineData1027}
NextRetry ==
    \/ \E l \in RetryLines : FeedLine(l)
    \/ ScanNextService
    \/ ServiceAppeared(SvcE2E)
    \/ ServiceDisappeared(SvcE2E)
    \/ IntrospectReply(SvcE2E, {})
    \/ \E n \in ScanNames : IntrospectError(n)
SpecRetry == InitScan /\ [][NextRetry]_vars

\* what the error handler leaves alone
ErrorFrame ==
    last_op'.op = "error" =>
        /\ mfg_registrations' = mfg_registrations
        /\ mac_registrations' = mac_registrations
        /\ pid_registrations' = pid_registrations
        /\ pid_range_registrations' = pid_range_registrations
        /\ emitters' = emitters
        /\ discovered_devices' = discovered_devices
        /\ relay_state' = relay_state
        /\ pending_scan_services' = pending_scan_services
        /\ scan_timers' = scan_timers
        /\ \A n \in BusNames : pending_introspect'[n] <= pending_introspect[n]
\* the step after a failed probe probes the same service again
ProbedAgain ==
    /\ last_op.op = "error"
    /\ pending_introspect'[last_op.arg] > pending_introspect[last_op.arg]

\* C26 as stated: the error handler changes no registration, channel or cache
\* entry and issues no probe, and the service is probed again only by the step
\* that handles its appearance.
C26_ReprobedOnlyOnAppearance ==
    [][ErrorFrame /\ (ProbedAgain => last_op' = [op |-> "appeared", arg |-> last_op.arg])]_vars
\* C26 amended: ... or by the tick of the initial scan that finds it first in the
\* queue it was put in at startup.
C26_ReprobedOnAppearanceOrScan ==
    [][ErrorFrame /\
       (ProbedAgain =>
           \/ last_op' = [op |-> "appeared", arg |-> last_op.arg]
           \/ /\ last_op' = [op |-> "scan", arg |-> last_op.arg]
              /\ pending_scan_services # <<>>
              /\ Head(pending_scan_services) = last_op.arg)]_vars
\* a probe failed while a device is in the cache and channels exist, and nothing
\* is in flight or queued for the service
C26_Witness ==
    /\ last_op = [op |-> "error", arg |-> SvcE2E]
    /\ pending_introspect[SvcE2E] = 0
    /\ pending_scan_services = <<>>
    /\ PathMfgr737 \in emitters
    /\ RelayId(MacA) \in DOMAIN discovered_devices

\* service n has no path in an index and no channel
OwnsNothing(n) == ObjectTree(n) \cap (ActivePaths(Directory) \cup emitters) = {}

\* C27: the disappearance of a service that owns no registration changes no index,
\* channel or cache entry.  The error handler changes nothing but the count of
\* calls in flight, which the disappearance handler neither reads nor writes, and
\* what the disappearance handler does is a function of the directory, the channels
\* and the name alone: the two handlers for one service commute.
C27_DisappearanceOfStranger ==
    [][/\ (last_op'.op = "disappeared" /\ OwnsNothing(last_op'.arg)) =>
             /\ mfg_registrations' = mfg_registrations
             /\ mac_registrations' = mac_registrations
             /\ pid_registrations' = pid_registrations
             /\ pid_range_registrations' = pid_range_registrations
             /\ emitters' = emitters
             /\ discovered_devices' = discovered_devices
       /\ last_op'.op = "disappeared" =>
             /\ pending_introspect' = pending_introspect
             /\ bus_names' = bus_names \ {last_op'.arg}
             /\ mfg_registrations' = RemoveFromIndex(mfg_registrations, last_op'.arg)
             /\ mac_registrations' = RemoveFromIndex(mac_registrations, last_op'.arg)
             /\ pid_registrations' = RemoveFromIndex(pid_registrations, last_op'.arg)
             /\ pid_range_registrations' = RemoveFromIndex(pid_range_registrations, last_op'.arg)
             /\ emitters' = emitters \ EmittersToRemove(emitters, last_op'.arg)
             /\ relay_state' = relay_state
       /\ last_op'.op = "error" =>
             /\ bus_names' = bus_names
             /\ mfg_registrations' = mfg_registrations
             /\ mac_registrations' = mac_registrations
             /\ pid_registrations' = pid_registrations
             /\ pid_range_registrations' = pid_range_registrations
             /\ emitters' = emitters
             /\ discovered_devices' = discovered_devices
             /\ relay_state' = relay_state]_vars
\* a service left that never registered, its probe still in flight, while another
\* service's registration, its channel and a cached device are in place
C27_Witness ==
    /\ last_op = [op |-> "disappeared", arg |-> SvcOrion]
    /\ OwnsNothing(SvcOrion)
    /\ pending_introspect[SvcOrion] = 1
    /\ PathMfgr737 \in emitters
    /\ RelayId(MacA) \in DOMAIN discovered_devices

(***************************************************************************)
(* Deliveries that a channel rejects: the Advertisement signal raises on   *)
(* one of the paths an event is sent on.                                   *)
(***************************************************************************)
RejectLines == {LineAddrA, LineCompany737, LineData1027}
RejectNames == {SvcE2E, SvcOrion}
NextReject ==
    \/ \E l \in RejectLines : FeedLine(l)
    \/ \E l \in RejectLines : \E p \in emitters : \E S \in SUBSET emitters :
          FeedLineRejected(l, p, S)
    \/ \E n \in RejectNames : ServiceAppeared(n)
    \/ \E n \in RejectNames : IntrospectReply(n, {})
SpecReject == Init /\ [][NextReject]_vars

\* C28: when the signal raised on one matched path, every other matched path that
\* has a channel was sent the event.
C28_OthersStillReceive ==
    last_op.op = "rejected" =>
        DOMAIN delivered.paths = (MatchedByDelivered \cap emitters) \ {last_op.arg}
\* what the code guarantees: the paths of the loops before the one that raised
C28_EarlierLoopsOnly ==
    last_op.op = "rejected" =>
        /\ DOMAIN delivered.paths \subseteq (MatchedByDelivered \cap emitters) \ {last_op.arg}
        /\ \A p \in (MatchedByDelivered \cap emitters) \ {last_op.arg} :
              /\ LoopOf(Directory, p) < LoopOf(Directory, last_op.arg) => p \in DOMAIN delivered.paths
              /\ LoopOf(Directory, p) > LoopOf(Directory, last_op.arg) => p \notin DOMAIN delivered.paths
\* the signal raised on the manufacturer path, first of four matched paths, and the
\* product, range and MAC paths were not sent on
C28_RestSkipped ==
    /\ last_op = [op |-> "rejected", arg |-> PathMfgr737]
    /\ MatchedByDelivered \cap emitters = {PathMfgr737, PathProduct, PathRangeLow, PathAddrA}
    /\ delivered.paths = EmptyDict

\* C29: in every state, and so whenever a line of btmon is processed, a service's
\* declarations are either all unregistered and without channel or all registered
\* and with their channels; and the state a reply leaves has them all registered
\* and the device cache empty.
C29_NoPartialDirectory ==
    /\ \A n \in DirectoryNames :
          \/ ObjectTree(n) \cap (ActivePaths(Directory) \cup emitters) = {}
          \/ ObjectTree(n) \subseteq ActivePaths(Directory) \cap emitters
    /\ last_op.op = "reply" =>
          /\ ObjectTree(last_op.arg) \subseteq ActivePaths(Directory) \cap emitters
          /\ discovered_devices = EmptyDict
\* an event was routed to one service while the probe of another was in flight and
\* nothing of that other service was registered yet
C29_Witness ==
    /\ RecordCompleted
    /\ IsSet(delivered.event)
    /\ DOMAIN delivered.paths = {PathMfgr737}
    /\ pending_introspect[SvcOrion] = 1
    /\ ObjectTree(SvcOrion) \cap (ActivePaths(Directory) \cup emitters) = {}

(***************************************************************************)
(* Device names: two devices, two names, records with and without a name   *)
(* line.                                                                   *)
(***************************************************************************)
NameLines == {LineAddrA, LineAddrB, LineNameTank, LineNameGauge, LineCompany737, LineData1027}
NextNames ==
    \/ \E l \in NameLines : FeedLine(l)
    \/ ServiceAppeared(SvcE2E)
    \/ IntrospectReply(SvcE2E, {})
SpecNames == Init /\ [][NextNames]_vars

\* the name a name line carries
NameOfLine == (LineNameTank :> "Tank1") @@ (LineNameGauge :> "Gauge")

\* C30: device_names changes only when a name line is read while a MAC is pending,
\* and then holds that name for that MAC and what it held for every other; such a
\* line always has this effect; an address line erases nothing of it; and an event
\* carries what device_names holds for its own MAC, or the empty string.
C30_NameOfOwnMac ==
    [][/\ device_names' # device_names =>
             /\ last_op'.op = "line"
             /\ last_op'.arg \in DOMAIN NameOfLine
             /\ IsSet(current_mac)
       /\ (last_op'.op = "line" /\ last_op'.arg \in DOMAIN NameOfLine) =>
             device_names' = IF IsSet(current_mac)
                             THEN Put(device_names, Val(current_mac), NameOfLine[last_op'.arg])
                             ELSE device_names
       /\ IsSet(delivered'.event) =>
             /\ handed' # <<>>
             /\ Val(delivered'.event).mac = Val(current_mac)
             /\ Val(delivered'.event).name = Get(device_names, Val(current_mac), "")]_vars
\* an event of the second device carries the name seen for it in an earlier record,
\* this record having no name line, while the first device has another name
C30_Witness ==
    /\ RecordCompleted
    /\ IsSet(delivered.event)
    /\ Val(delivered.event).mac = MacB
    /\ Val(delivered.event).name = "Gauge"
    /\ current_name = None
    /\ Get(device_names, MacA, "") = "Tank1"
\* an event of a device whose name was never seen, after a name was seen for another
C30_WitnessUnnamed ==
    /\ RecordCompleted
    /\ IsSet(delivered.event)
    /\ Val(delivered.event).mac = MacB
    /\ Val(delivered.event).name = ""
    /\ DOMAIN device_names = {MacA}

(***************************************************************************)
(* Lines of btmon that none of the six searches recognise, between the     *)
(* lines of a record, with a directory and a device cache in place.        *)
(***************************************************************************)
NoiseLines ==
    {LineHci1, LineReport, LineAddrA, LineDataLength, LineNameTank, LineRssi,
     LineCompany737, LineData1027}
NextNoise ==
    \/ \E l \in NoiseLines : FeedLine(l)
    \/ ServiceAppeared(SvcE2E)
    \/ IntrospectReply(SvcE2E, {})
SpecNoise == Init /\ [][NextNoise]_vars

\* none of the searches of parse_btmon_line finds anything in the line
Unrecognized(l) ==
    LET m == Searched[l]
    IN /\ ~IsSet(m.hci) /\ ~IsSet(m.mac) /\ ~IsSet(m.name)
       /\ ~IsSet(m.rssi) /\ ~IsSet(m.company) /\ ~IsSet(m.data)

\* C31: a line that matches none of the recognised shapes changes nothing: the
\* pending MAC, name, manufacturer ID, RSSI and interface, the four indexes, the
\* channels and the device cache are as before, and no event is handed on or emitted.
C31_UnrecognizedIsNoOp ==
    [][(last_op'.op = "line" /\ Unrecognized(last_op'.arg)) =>
          /\ UNCHANGED <<current_mac, current_name, current_mfg_id, current_rssi,
                         current_interface>>
          /\ UNCHANGED directory_vars
          /\ UNCHANGED discovered_devices
          /\ handed' = <<>>
          /\ ~IsSet(delivered'.event)]_vars
\* an unrecognised line was read while a whole record was pending and a device cached
C31_Witness ==
    /\ last_op.op = "line"
    /\ Unrecognized(last_op.arg)
    /\ IsSet(current_mac) /\ IsSet(current_name) /\ IsSet(current_mfg_id)
    /\ IsSet(current_rssi) /\ IsSet(current_interface)
    /\ emitters # {}
    /\ DOMAIN discovered_devices # {}


(***************************************************************************)
(* Who writes the four indexes and the channels.                           *)
(***************************************************************************)
\* C32: reading a line, and with it process_advertisement and _emit_advertisement,
\* leaves the four filter indexes and the set of channels as they were; they change
\* only in the probe-reply handler and in the disappearance handler.
C32_DispatchKeepsDirectory ==
    [][/\ last_op'.op \in {"line", "rejected"} => UNCHANGED directory_vars
       /\ directory_vars' # directory_vars => last_op'.op \in {"reply", "disappeared"}]_vars
\* an event was dispatched while a matched path had no channel, and it still has none
C32_Witness ==
    /\ RecordCompleted
    /\ IsSet(delivered.event)
    /\ PathAddrA \in MatchedByDelivered \ emitters
    /\ DOMAIN delivered.paths # {}


(***************************************************************************)
(* The device switch across a clearing of the device cache.                *)
(***************************************************************************)
\* the switch of the device of a call is off
SwitchOff(relays, call) == Get(relays, IdOf(call), 1) = 0

\* C33: in every reachable state, an event that went out on some channel belongs to
\* a device whose switch is on; a device whose switch is off gets nothing delivered,
\* also right after the device cache was cleared.
C33_SwitchOffNeverDelivered ==
    (RecordCompleted /\ DOMAIN delivered.paths # {}) => ~SwitchOff(relay_state, handed[1])
\* what the code holds to: an event of a switched-off device goes out only when the
\* device had no cache entry and discovery is on, and never on a cache hit
C33_SwitchOffDeliveredOnMiss ==
    [][(/\ last_op'.op = "line"
        /\ handed' # <<>>
        /\ SwitchOff(relay_state, handed'[1])
        /\ DOMAIN delivered'.paths # {})
       => /\ IdOf(handed'[1]) \notin DOMAIN discovered_devices
          /\ discovery_state = 1
          /\ ~discovered_devices'[IdOf(handed'[1])].route]_vars
\* the switch was turned off, which cleared the cache, and the next event went out
C33_LeakAfterClear ==
    /\ RecordCompleted
    /\ DOMAIN delivered.paths # {}
    /\ SwitchOff(relay_state, handed[1])
    /\ ~discovered_devices[IdOf(handed[1])].route


LeaveNames == {SvcTank, SvcTank2}
LeaveLines == {LineAddrB, LineCompany737, LineData1027}
NextLeave ==
    \/ \E l \in LeaveLines : FeedLine(l)
    \/ \E n \in LeaveNames : ServiceAppeared(n)
    \/ \E n \in LeaveNames : ServiceDisappeared(n)
    \/ \E n \in LeaveNames : IntrospectReply(n, {})
SpecLeave == Init /\ [][NextLeave]_vars

\* the entries of the four indexes that hold a path of service n
RegistrationsOf(dir, n) ==
    [kind \in {"mfg", "mac", "pid", "range"} |->
        {kp \in (DOMAIN dir[kind]) \X ObjectTree(n) : kp[2] \in dir[kind][kp[1]]}]

\* C35: when the disappearance of a service has been handled, every other service
\* has the registrations and the channels it had before, also a service whose name
\* contains the name of the one that left.
C35_OthersKeptOnDisappearance ==
    [][last_op'.op = "disappeared" =>
          \A n \in BusNames \ {last_op'.arg} :
              /\ RegistrationsOf(Directory', n) = RegistrationsOf(Directory, n)
              /\ ObjectTree(n) \cap emitters' = ObjectTree(n) \cap emitters]_vars
\* tank left while tank2, whose name contains tank's, is registered with its channel
C35_Witness ==
    /\ last_op = [op |-> "disappeared", arg |-> SvcTank]
    /\ Contains(SvcTank2, SvcTank)
    /\ SvcTank2 \in bus_names
    /\ RegistrationsOf(Directory, SvcTank2)["mfg"] = {<<737, PathTank2Mfgr>>}
    /\ PathTank2Mfgr \in emitters


(***************************************************************************)
(* Events that match a registration whose channel could not be created.    *)
(***************************************************************************)
UnsentLines == {LineAddrB, LineCompany737, LineData1027, LineData1028}
NextUnsent ==
    \/ \E l \in UnsentLines : FeedLine(l)
    \/ ServiceAppeared(SvcTank)
    \/ \E failing \in FailingChoices(SvcTank) : IntrospectReply(SvcTank, failing)
    \/ \E d \in TickSteps : Tick(d)
SpecUnsent == Init /\ [][NextUnsent]_vars

\* the payload and the route time the cache holds for a device, None without entry
RouteMark(devices, relay_id) ==
    IF relay_id \in DOMAIN devices
    THEN Some(<<devices[relay_id].previous, devices[relay_id].timestamp>>)
    ELSE None

\* C36 as stated: the last payload and the last route time of a cache entry change
\* only in a step that sent the event on at least one channel.
C36_UpdatedOnlyWhenDelivered ==
    [][(/\ last_op'.op = "line"
        /\ handed' # <<>>
        /\ RouteMark(discovered_devices', IdOf(handed'[1])) #
               RouteMark(discovered_devices, IdOf(handed'[1])))
       => DOMAIN delivered'.paths # {}]_vars
\* C36: the last payload and the last route time of a cache entry are set whenever
\* the event is dispatched, on however many channels it went out, none included, and
\* change in no other line step; an identical payload that follows within the repeat
\* interval is suppressed.
C36_UpdatedOnDispatch ==
    [][(last_op'.op = "line" /\ handed' # <<>>) =>
          LET id == IdOf(handed'[1])
              hex == handed'[1].hex_data
          IN /\ IsSet(delivered'.event) =>
                   RouteMark(discovered_devices', id) = Some(<<Some(BytesOf[hex]), now>>)
             /\ ~IsSet(delivered'.event) =>
                   RouteMark(discovered_devices', id) = RouteMark(discovered_devices, id)
             /\ (/\ hex \in DOMAIN BytesOf
                 /\ RouteMark(discovered_devices, id) # None
                 /\ discovered_devices[id].route
                 /\ discovered_devices[id].previous = Some(BytesOf[hex])
                 /\ now - discovered_devices[id].timestamp < repeat_interval)
                => delivered' = NoDelivery]_vars
\* an event was dispatched to no channel, its only matching path having none, and the
\* cache holds its payload and the time of the dispatch
C36_Witness ==
    /\ RecordCompleted
    /\ IsSet(delivered.event)
    /\ MatchedByDelivered = {PathAddrB}
    /\ delivered.paths = EmptyDict
    /\ RouteMark(discovered_devices, IdOf(handed[1])) =
           Some(<<Some(BytesOf[handed[1].hex_data]), now>>)
\* the identical payload 599 s later: suppressed, though the first one reached nobody
\* (the entry was never logged as routed)
C36_SuppressedAfterUnsent ==
    /\ RecordCompleted
    /\ Matches(handed[1])
    /\ delivered = NoDelivery
    /\ RouteMark(discovered_devices, IdOf(handed[1])) =
           Some(<<Some(BytesOf[handed[1].hex_data]), now - 599>>)
    /\ discovered_devices[IdOf(handed[1])].last_log_time = 0


(***************************************************************************)
(* What a channel receives in one dispatch.                                *)
(***************************************************************************)
\* C37: in one dispatch a channel receives the event only if its path is registered
\* and the filter the path declares matches the event (the MAC, or the manufacturer
\* alone, or the manufacturer with the product, or the manufacturer with a range
\* holding the product), and it receives it once.
C37_OnlyMatchingOnce ==
    (RecordCompleted /\ IsSet(delivered.event)) =>
        LET ev == Val(delivered.event)
        IN \A p \in DOMAIN delivered.paths :
              /\ p \in emitters \cap ActivePaths(Directory)
              /\ FilterMatches(DeclaredFilter[p], ev.mac, ev.manufacturer_id, ProductIn(ev.data))
              /\ delivered.paths[p] = 1
\* product 1028 of manufacturer 737 from MAC A with all six paths registered: the
\* product path for 1027, the lower range and the other manufacturer got nothing
C37_Witness ==
    /\ RecordCompleted
    /\ IsSet(delivered.event)
    /\ emitters = RegistrationPaths
    /\ ProductIn(Val(delivered.event).data) = Some(1028)
    /\ delivered.paths = [p \in {PathMfgr737, PathRangeHigh, PathAddrA} |-> 1]


(***************************************************************************)
(* Channels against registered paths.                                      *)
(***************************************************************************)
\* C38: after every probe reply and every disappearance is handled, every channel
\* path is a registered path of one of the four indexes; after a reply that parsed
\* registrations and in which no channel creation failed the two sets are equal, and
\* a disappearance keeps them equal.
C38_NoOrphanChannel ==
    [][/\ last_op'.op \in {"reply", "disappeared"} =>
             emitters' \subseteq ActivePaths(Directory')
       /\ (/\ last_op'.op = "reply"
           /\ RootXmlMentions(ObjectTree(last_op'.arg))
           /\ IntrospectReply(last_op'.arg, {}))
          => emitters' = ActivePaths(Directory')
       /\ (last_op'.op = "disappeared" /\ emitters = ActivePaths(Directory))
          => emitters' = ActivePaths(Directory')]_vars
\* a reply in which one creation failed: three channels for four registered paths
C38_Witness ==
    /\ last_op = [op |-> "reply", arg |-> SvcOrion]
    /\ ActivePaths(Directory) = ObjectTree(SvcOrion)
    /\ emitters \subseteq ActivePaths(Directory)
    /\ Cardinality(emitters) = 3
\* a later reply without failure: a channel for each of the four registered paths
C38_WitnessAll ==
    /\ last_op = [op |-> "reply", arg |-> SvcOrion]
    /\ emitters = ObjectTree(SvcOrion)
    /\ emitters = ActivePaths(Directory)
    /\ missing_emitter_logged # {}


(***************************************************************************)
(* The pending record after a payload line.                                *)
(***************************************************************************)
\* a MAC and a manufacturer ID are not both pending
Incomplete(mac, mfg_id) == ~IsSet(mac) \/ ~IsSet(mfg_id)

\* C39: a payload line accepted with a MAC and a manufacturer ID pending leaves
\* both unset, whether its hex decodes or not; and as long as a MAC and a
\* manufacturer ID are not both pending, a line that is neither an address nor a
\* company line, a valid payload line included, hands on no record, emits nothing
\* and leaves them not both pending.
C39_PayloadConsumesPending ==
    [][last_op'.op = "line" =>
          /\ handed' # <<>> => ~IsSet(current_mac') /\ ~IsSet(current_mfg_id')
          /\ (/\ Incomplete(current_mac, current_mfg_id)
              /\ ~IsSet(Searched[last_op'.arg].mac)
              /\ ~IsSet(Searched[last_op'.arg].company))
             => /\ handed' = <<>>
                /\ delivered' = NoDelivery
                /\ Incomplete(current_mac', current_mfg_id')]_vars
\* an undecodable payload line was accepted for a registered device and the pending
\* record is gone
C39_Witness ==
    /\ RecordCompleted
    /\ handed[1].hex_data = "012"
    /\ FromHex(handed[1].hex_data) = None
    /\ ~IsSet(current_mac) /\ ~IsSet(current_mfg_id)
    /\ PathMfgr737 \in emitters
\* a valid payload line read with nothing pending, a channel waiting: no event
C39_WitnessFollowing ==
    /\ last_op = [op |-> "line", arg |-> LineData1027]
    /\ handed = <<>>
    /\ delivered = NoDelivery
    /\ ~IsSet(current_mac) /\ ~IsSet(current_mfg_id)
    /\ PathMfgr737 \in emitters
    /\ DOMAIN discovered_devices # {}


(***************************************************************************)
(* More devices than the device cache is meant to hold.  The router has    *)
(* seen CACHE_LIMIT + 2 devices of a registered manufacturer, each of      *)
(* which got its switch; the cache was then cleared by the repeat-interval *)
(* handler, and all of them but the last have been seen again.  The state  *)
(* is computed with process_advertisement itself, one call per record.     *)
(***************************************************************************)
\* process_advertisement for device n, the result carried on as the next state
Observe(st, dir, n) ==
    LET r == ProcessAdvertisement(dir, UpdateEmitters(dir, {}, {}), EmptyDict, st.devices,
                                  st.relays, 1, DEFAULT_REPEAT_INTERVAL,
                                  DEFAULT_LOG_INTERVAL, StartTime, MacOf(n), 737,
                                  "0102030405", 0, "hci0")
    IN [devices |-> r.devices @@ EmptyDict, relays |-> r.relays @@ EmptyDict]
\* the devices lo..hi observed one after the other, the first half before the second
RECURSIVE ObserveAll(_, _, _, _)
ObserveAll(st, dir, lo, hi) ==
    IF lo > hi THEN st
    ELSE IF lo = hi THEN Observe(st, dir, lo)
    ELSE LET half == ObserveAll(st, dir, lo, (lo + hi) \div 2)
         IN CASE DOMAIN half = {"devices", "relays"} ->
                    ObserveAll(half, dir, (lo + hi) \div 2 + 1, hi)
\* all devices discovered, the cache cleared, all but the last observed again
Flooded(dir) ==
    LET discovered == ObserveAll([devices |-> EmptyDict, relays |-> EmptyDict], dir,
                                 0, FloodDevices - 1)
        cleared == [devices |-> EmptyDict, relays |-> discovered.relays]
    IN ObserveAll(cleared, dir, 0, FloodDevices - 2)

InitFlood ==
    /\ current_mac = None
    /\ current_name = None
    /\ current_mfg_id = None
    /\ current_rssi = None
    /\ current_interface = None
    /\ device_names = EmptyDict
    /\ \E dir \in {ParseRegistrations(EmptyDirectory, ObjectTree(SvcE2E))} :
          /\ mfg_registrations = dir.mfg
          /\ mac_registrations = dir.mac
          /\ pid_registrations = dir.pid
          /\ pid_range_registrations = dir.range
          /\ emitters = UpdateEmitters(dir, {}, {})
          /\ \E st \in {Flooded(dir)} :
                /\ discovered_devices = st.devices
                /\ relay_state = st.relays
    /\ discovery_state = 1
    /\ repeat_interval = DEFAULT_REPEAT_INTERVAL
    /\ log_interval = DEFAULT_LOG_INTERVAL
    /\ now = StartTime
    /\ bus_names = {SvcE2E}
    /\ pending_introspect = [n \in BusNames |-> 0]
    /\ btmon_pipe = <<>>
    /\ handed = <<>>
    /\ delivered = NoDelivery
    /\ last_op = [op |-> "init", arg |-> ""]
    /\ pending_scan_services = <<>>
    /\ scan_timers = 0
    /\ heartbeat = StartTime
    /\ btmon_proc = "running"
    /\ btmon_watch = TRUE
    /\ mainloop = "running"
    /\ missing_emitter_logged = {}
    /\ warnings = EmptyDict
FloodLines == FloodAddrLines \cup {LineCompany737, LineData1027, LineData1028}
NextFlood ==
    \/ \E l \in FloodLines : FeedLine(l)
    \/ \E d \in TickSteps : Tick(d)
SpecFlood == InitFlood /\ [][NextFlood]_vars

\* C40: in every reachable state the device cache holds at most CACHE_LIMIT + 1
\* entries.
C40_CacheBounded == Cardinality(DOMAIN discovered_devices) <= CACHE_LIMIT + 1
\* what the code holds to: the cache never holds a device without a switch, so it is
\* bounded by the number of switches, and only an insertion of a device that has no
\* switch yet passes the size test
C40_BoundedBySwitches ==
    /\ DOMAIN discovered_devices \subseteq DOMAIN relay_state
    /\ Cardinality(DOMAIN discovered_devices) <= FloodDevices
\* the last device was observed again: its entry is put back with no size test
C40_Overfull ==
    /\ RecordCompleted
    /\ handed[1].mac = MacOf(FloodDevices - 1)
    /\ Cardinality(DOMAIN discovered_devices) = CACHE_LIMIT + 2

=============================================================================
